---- MODULE Spec2Model ----
(***************************************************************************)
(* Model of the recommendtf library: src/src/recommendation.ts (class      *)
(* Recommendation) and src/src/memory-storage.ts (class InMemoryStorage).  *)
(*                                                                         *)
(* Numbers held by tensors are integers here.  The numeric engine          *)
(* (TensorFlow.js) is not part of the repository: tf.randomNormal is a     *)
(* free choice of a seed that fixes every entry, and one optimizer.minimize*)
(* call moves every entry of the two addressed rows by learningRate        *)
(* against the sign of the gradient of the squared error that the closure  *)
(* of trainEpochInBatches computes.                                        *)
(***************************************************************************)
EXTENDS Integers, Sequences, FiniteSets, TLC

\* ------------------------------------------------------------------ bounds
MaxData == 2            \* longest interaction list one fit call is given
MaxTotal == 2           \* interactions given to all fit calls of a run
MaxCalls == 2           \* fit call frames that can exist at a time
MaxCount == 2           \* largest count asked of getEntities / getUsers
MaxRows == 4            \* most rows asked of createEmbeddingsInBatches

\* --------------------------------------------------------------- universes
UserIds == {"u1", "u2"}
EntityIds == {"e1", "e2"}
\* A rating that is absent (undefined) is kept apart from every number.
NoRating == -1
\* The interactions the lists given to fit are made of: every pair of a user
\* and an entity, with and without a rating.
Interactions ==
  {[user |-> "u1", entity |-> "e1", rating |-> NoRating],
   [user |-> "u1", entity |-> "e2", rating |-> 0],
   [user |-> "u2", entity |-> "e1", rating |-> 0],
   [user |-> "u2", entity |-> "e2", rating |-> NoRating]}
\* null index, undefined array element, unassigned tensor field, instance
\* not constructed, no document.
Null == -1
Undefined == "undefined"
NoTensor == [undefined |-> TRUE]
NoModel == [constructed |-> FALSE]
NoDoc == [exported |-> FALSE]
CurrentVersion == "1.0.0"
\* The version strings a document given to from() carries.
Versions == {CurrentVersion, "0.9.0"}

Min(a, b) == IF a < b THEN a ELSE b

Sign(x) == IF x > 0 THEN 1 ELSE IF x < 0 THEN -1 ELSE 0

RECURSIVE SeqsUpTo(_, _)
SeqsUpTo(S, n) ==
  IF n = 0 THEN {<<>>}
  ELSE LET shorter == SeqsUpTo(S, n - 1)
       IN shorter \cup {Append(s, x) : s \in {t \in shorter : Len(t) = n - 1}, x \in S}

\* ------------------------------------------------ JavaScript Map and Array
\* A Map is the sequence of its <<key, value>> entries in insertion order.
MapHas(m, k) == \E i \in 1..Len(m) : m[i][1] = k

MapGet(m, k) == m[CHOOSE i \in 1..Len(m) : m[i][1] = k][2]

MapSet(m, k, v) ==
  IF MapHas(m, k)
  THEN [i \in 1..Len(m) |-> IF m[i][1] = k THEN <<k, v>> ELSE m[i]]
  ELSE Append(m, <<k, v>>)

RECURSIVE MapFromEntries(_)
MapFromEntries(entries) ==
  IF entries = <<>> THEN <<>>
  ELSE MapSet(MapFromEntries(SubSeq(entries, 1, Len(entries) - 1)),
              entries[Len(entries)][1], entries[Len(entries)][2])

\* arr[idx] = v with a 0-based idx; a write past the end leaves holes.
ArraySet(arr, idx, v) ==
  [i \in 1..(IF idx + 1 > Len(arr) THEN idx + 1 ELSE Len(arr)) |->
     IF i = idx + 1 THEN v ELSE IF i <= Len(arr) THEN arr[i] ELSE Undefined]

\* --------------------------------------------------------- InMemoryStorage
NewStorage ==
  [userMap |-> <<>>, entityMap |-> <<>>,
   reverseUserMap |-> <<>>, reverseEntityMap |-> <<>>]

getUserIndex(st, id) ==
  IF MapHas(st.userMap, id) THEN MapGet(st.userMap, id) ELSE Null

getEntityIndex(st, id) ==
  IF MapHas(st.entityMap, id) THEN MapGet(st.entityMap, id) ELSE Null

\* getOrCreateUserIndex numbering users and entities with one counter.
getOrCreateUserIndexSharedCounter(st, id) ==
  IF ~MapHas(st.userMap, id)
  THEN LET idx == Len(st.userMap) + Len(st.entityMap)
       IN [st EXCEPT !.userMap = MapSet(@, id, idx),
                     !.reverseUserMap = ArraySet(@, idx, id)]
  ELSE st

getOrCreateUserIndex(st, id) ==
  IF ~MapHas(st.userMap, id)
  THEN LET idx == Len(st.userMap)
       IN [st EXCEPT !.userMap = MapSet(@, id, idx),
                     !.reverseUserMap = ArraySet(@, idx, id)]
  ELSE st

\* getOrCreateEntityIndex without the write to reverseEntityMap.
getOrCreateEntityIndexNoReverse(st, id) ==
  IF ~MapHas(st.entityMap, id)
  THEN [st EXCEPT !.entityMap = MapSet(@, id, Len(st.entityMap))]
  ELSE st

getOrCreateEntityIndex(st, id) ==
  IF ~MapHas(st.entityMap, id)
  THEN LET idx == Len(st.entityMap)
       IN [st EXCEPT !.entityMap = MapSet(@, id, idx),
                     !.reverseEntityMap = ArraySet(@, idx, id)]
  ELSE st

getAllUsers(st) == st.reverseUserMap

getAllEntities(st) == st.reverseEntityMap

\* exportData with the entries of the two forward maps exchanged.
exportDataSwapped(st) ==
  [userMap |-> st.entityMap, entityMap |-> st.userMap,
   reverseUserMap |-> st.reverseUserMap,
   reverseEntityMap |-> st.reverseEntityMap]

exportData(st) ==
  [userMap |-> st.userMap, entityMap |-> st.entityMap,
   reverseUserMap |-> st.reverseUserMap,
   reverseEntityMap |-> st.reverseEntityMap]

\* importData that adds the entries of data to those the storage holds.
importDataMerging(st, data) ==
  [userMap |-> MapFromEntries(st.userMap \o data.userMap),
   entityMap |-> MapFromEntries(st.entityMap \o data.entityMap),
   reverseUserMap |-> st.reverseUserMap \o data.reverseUserMap,
   reverseEntityMap |-> st.reverseEntityMap \o data.reverseEntityMap]

importData(st, data) ==
  [userMap |-> MapFromEntries(data.userMap),
   entityMap |-> MapFromEntries(data.entityMap),
   reverseUserMap |-> data.reverseUserMap,
   reverseEntityMap |-> data.reverseEntityMap]

\* ------------------------------------------------------------------ tensors
\* A rank-2 tensor is its shape and its entries in row-major order.
Tensor(n, d, vals) == [shape |-> <<n, d>>, vals |-> vals]

Rows(t) == t.shape[1]

Zeros(n, d) == Tensor(n, d, [i \in 1..(n * d) |-> 0])

\* tf.randomNormal([n, d]): the generator draws a seed, and the entry at
\* position p is fixed by the seed and p.
Seeds == {1, 2}

Sample(seed, p) == IF (p * seed) % 3 = 1 THEN 1 ELSE -1

RandomNormal(n, d) ==
  {Tensor(n, d, [p \in 1..(n * d) |-> Sample(seed, p)]) : seed \in Seeds}

Concat2(a, b) ==
  Tensor(a.shape[1] + b.shape[1], a.shape[2], a.vals \o b.vals)

\* t.slice([idx, 0], [1, d]): the row at 0-based slot idx.
SliceRow(t, idx, d) == SubSeq(t.vals, idx * t.shape[2] + 1, idx * t.shape[2] + d)

RECURSIVE SumSeq(_)
SumSeq(s) == IF s = <<>> THEN 0 ELSE s[1] + SumSeq(Tail(s))

Dot(a, b) == SumSeq([j \in 1..Len(a) |-> a[j] * b[j]])

\* tf.matMul(matrix, vec.transpose()).reshape([-1])
MatVec(t, vec) ==
  [r \in 1..t.shape[1] |-> Dot(SliceRow(t, r - 1, t.shape[2]), vec)]

\* tensor.array(): nested rows; a tensor without rows gives the empty array.
ToArray(t) ==
  [r \in 1..t.shape[1] |-> SliceRow(t, r - 1, t.shape[2])]

RECURSIVE Flatten(_)
Flatten(rows) == IF rows = <<>> THEN <<>> ELSE rows[1] \o Flatten(Tail(rows))

\* tf.tensor2d(values) without a shape: the shape is inferred from the
\* nesting, and an array without rows has an inferred rank of 1, which
\* tensor2d rejects.
Tensor2d(rows) ==
  IF rows = <<>> THEN NoTensor
  ELSE Tensor(Len(rows), Len(rows[1]), Flatten(rows))


\* ----------------------------------------------------------- Recommendation
Insts == {1, 2}
CallIds == 1..MaxCalls
\* The options the constructor is given.
Configs ==
  {[epoch |-> 2, embeddingSize |-> 2, learningRate |-> 1, batchSize |-> 2],
   [epoch |-> 0, embeddingSize |-> 1, learningRate |-> 1, batchSize |-> 1]}

VARIABLES
  models,     \* instance -> its fields, or NoModel before it is constructed
  calls,      \* fit call -> its position, arguments and loop variables
  doc,        \* the last document returned by export, or NoDoc
  result,     \* what the last getEntities / getUsers / export / from returned
  pre,        \* fit call -> the fields of its instance when it was issued
  initRuns,   \* instance -> completed runs of initializeEmbeddings
  gradSteps,  \* fit call -> optimizer.minimize calls it has made
  used,       \* interactions given to fit calls so far
  sizing,     \* fit call -> the locals of its sizing phase across its awaits
  overlapped, \* a fit call was issued while another one was in progress
  console,    \* what the last operation wrote with console.warn
  stepped,    \* optimizer -> minimize has been called on it
  given,      \* the document the last from was called with, or NoDoc
  file,       \* the text the last save wrote to its path, or NoFile
  released,   \* fit call -> the matrices it has disposed of, by field
  supplied    \* the storage the last from was handed, as it was, or NoStorage

vars == <<models, calls, doc, result, pre, initRuns, gradSteps, used,
          sizing, overlapped, console, stepped, given, file, released,
          supplied>>

\* The constructor taking one optimizer of the module for every instance.
ConstructorSharedOptimizer(options, storage, inst) ==
  [epoch |-> options.epoch,
   embeddingSize |-> options.embeddingSize,
   learningRate |-> options.learningRate,
   batchSize |-> options.batchSize,
   storage |-> storage,
   userEmbeddings |-> NoTensor,
   entityEmbeddings |-> NoTensor,
   initialized |-> FALSE,
   optimizer |-> 1]

\* new Recommendation(options): the fields after the constructor. The
\* optimizer tf.train.adam returns is a new object with each call; it is
\* named after the instance under construction.
Constructor(options, storage, inst) ==
  [epoch |-> options.epoch,
   embeddingSize |-> options.embeddingSize,
   learningRate |-> options.learningRate,
   batchSize |-> options.batchSize,
   storage |-> storage,
   userEmbeddings |-> NoTensor,
   entityEmbeddings |-> NoTensor,
   initialized |-> FALSE,
   optimizer |-> inst]

\* EmbeddingBatches with every chunk of batchSize rows, the last one too.
RECURSIVE EmbeddingBatchesFullChunks(_, _, _, _)
EmbeddingBatchesFullChunks(i, totalSize, embeddingDim, batchSize) ==
  IF i < totalSize
  THEN {Concat2(batch, rest) :
          batch \in RandomNormal(batchSize, embeddingDim),
          rest \in EmbeddingBatchesFullChunks(i + batchSize, totalSize,
                                              embeddingDim, batchSize)}
  ELSE {Zeros(0, embeddingDim)}

\* The tensors createEmbeddingsInBatches can return: chunks of at most
\* batchSize rows, from row offset i on, concatenated along axis 0.
RECURSIVE EmbeddingBatches(_, _, _, _)
EmbeddingBatches(i, totalSize, embeddingDim, batchSize) ==
  IF i < totalSize
  THEN LET currentBatchSize == Min(batchSize, totalSize - i)
       IN {Concat2(batch, rest) :
             batch \in RandomNormal(currentBatchSize, embeddingDim),
             rest \in EmbeddingBatches(i + batchSize, totalSize,
                                       embeddingDim, batchSize)}
  ELSE {Zeros(0, embeddingDim)}

createEmbeddingsInBatches(m, totalSize, embeddingDim) ==
  IF totalSize = 0
  THEN {Zeros(0, embeddingDim)}
  ELSE EmbeddingBatches(0, totalSize, embeddingDim,
                        Min(m.batchSize, totalSize))

\* The row counts of the chunks the loop of createEmbeddingsInBatches pushes
\* from row offset i on, lines 146-149.
RECURSIVE BatchRows(_, _, _)
BatchRows(i, totalSize, batchSize) ==
  IF i < totalSize
  THEN <<Min(batchSize, totalSize - i)>>
         \o BatchRows(i + batchSize, totalSize, batchSize)
  ELSE <<>>

\* The chunks createEmbeddingsInBatches builds for totalSize rows: none when
\* it returns at line 140.
batches(m, totalSize) ==
  IF totalSize = 0 THEN <<>>
  ELSE BatchRows(0, totalSize, Min(m.batchSize, totalSize))

\* initializeEmbeddings without the assignment to _initialized.
initializeEmbeddingsNoFlag(m) ==
  LET numUsers == Len(getAllUsers(m.storage))
      numEntities == Len(getAllEntities(m.storage))
  IN {[m EXCEPT !.userEmbeddings = ue, !.entityEmbeddings = ee] :
        ue \in createEmbeddingsInBatches(m, numUsers, m.embeddingSize),
        ee \in createEmbeddingsInBatches(m, numEntities, m.embeddingSize)}

\* The fields initializeEmbeddings can leave.
initializeEmbeddings(m) ==
  LET numUsers == Len(getAllUsers(m.storage))
      numEntities == Len(getAllEntities(m.storage))
  IN {[m EXCEPT !.userEmbeddings = ue, !.entityEmbeddings = ee,
                !.initialized = TRUE] :
        ue \in createEmbeddingsInBatches(m, numUsers, m.embeddingSize),
        ee \in createEmbeddingsInBatches(m, numEntities, m.embeddingSize)}

\* resizeMatrix with the number of new rows taken to be the slot count.
resizeMatrixNoSubtract(m, old, count) ==
  IF count > Rows(old)
  THEN {Concat2(old, new) :
          new \in createEmbeddingsInBatches(m, count, m.embeddingSize)}
  ELSE {old}

\* resizeMatrix that keeps only the rows it creates.
resizeMatrixOnlyNew(m, old, count) ==
  {new : new \in createEmbeddingsInBatches(m, count - Rows(old),
                                           m.embeddingSize)}

\* resizeMatrix with the new rows put in front of the old ones.
resizeMatrixPrepend(m, old, count) ==
  IF count > Rows(old)
  THEN {Concat2(new, old) :
          new \in createEmbeddingsInBatches(m, count - Rows(old),
                                            m.embeddingSize)}
  ELSE {old}

\* One branch of resizeEmbeddingsIfNeeded: the tensors the matrix can become.
resizeMatrix(m, old, count) ==
  IF count > Rows(old)
  THEN {Concat2(old, new) :
          new \in createEmbeddingsInBatches(m, count - Rows(old),
                                            m.embeddingSize)}
  ELSE {old}

\* resizeEmbeddingsIfNeeded that grows the user matrix only.
resizeEmbeddingsUsersOnly(m) ==
  LET userCount == Len(getAllUsers(m.storage))
  IN {[m EXCEPT !.userEmbeddings = ue] :
        ue \in resizeMatrix(m, m.userEmbeddings, userCount)}

resizeEmbeddingsIfNeeded(m) ==
  LET userCount == Len(getAllUsers(m.storage))
      entityCount == Len(getAllEntities(m.storage))
  IN {[m EXCEPT !.userEmbeddings = ue, !.entityEmbeddings = ee] :
        ue \in resizeMatrix(m, m.userEmbeddings, userCount),
        ee \in resizeMatrix(m, m.entityEmbeddings, entityCount)}

\* data.slice(i, i + batchSize), i 0-based.
BatchSlice(data, i, batchSize) ==
  SubSeq(data, i + 1, Min(i + batchSize, Len(data)))

\* The row at slot idx replaced by vec.
WithRow(t, idx, vec) ==
  [t EXCEPT !.vals = [p \in 1..Len(t.vals) |->
     IF p > idx * t.shape[2] /\ p <= (idx + 1) * t.shape[2]
     THEN vec[p - idx * t.shape[2]] ELSE t.vals[p]]]

\* Target with a default for every falsy rating (rating || 1).
TargetFalsyDefault(rating) == IF rating = NoRating \/ rating = 0 THEN 1 ELSE rating

Target(rating) == IF rating = NoRating THEN 1 ELSE rating

\* One optimizer.minimize call of trainEpochInBatches on slots userIdx and
\* entityIdx: prediction, squared error against the target, and the step.
GradientStep(m, userIdx, entityIdx, rating) ==
  LET d == m.embeddingSize
      userVec == SliceRow(m.userEmbeddings, userIdx, d)
      entityVec == SliceRow(m.entityEmbeddings, entityIdx, d)
      pred == Dot(userVec, entityVec)
      err == pred - Target(rating)
      newUser == [j \in 1..d |->
                    userVec[j] - m.learningRate * Sign(2 * err * entityVec[j])]
      newEntity == [j \in 1..d |->
                    entityVec[j] - m.learningRate * Sign(2 * err * userVec[j])]
  IN [m EXCEPT !.userEmbeddings = WithRow(@, userIdx, newUser),
               !.entityEmbeddings = WithRow(@, entityIdx, newEntity)]

\* ------------------------------------------------------------------- ranking
\* Array.prototype.sort is stable: an entry goes behind every entry that the
\* comparator b.score - a.score does not place after it.
RECURSIVE SortByScore(_)
SortByScore(entries) ==
  IF entries = <<>> THEN <<>>
  ELSE LET n == Len(entries)
           last == entries[n]
           sorted == SortByScore(SubSeq(entries, 1, n - 1))
           ahead == Cardinality({p \in 1..(n - 1) : sorted[p].score >= last.score})
       IN SubSeq(sorted, 1, ahead) \o <<last>> \o SubSeq(sorted, ahead + 1, n - 1)

\* rankTop with the comparator a.score - b.score.
rankTopAscending(scores, ids, count) ==
  LET entries == [idx \in 1..Len(scores) |->
                    [id |-> IF idx <= Len(ids) THEN ids[idx] ELSE Undefined,
                     score |-> 0 - scores[idx]]]
      sorted == SortByScore(entries)
      top == SubSeq(sorted, 1, Min(count, Len(sorted)))
  IN [p \in 1..Len(top) |-> top[p].id]

\* rankTop with a sort that puts equal scores in reverse slot order.
rankTopTiesReversed(scores, ids, count) ==
  LET n == Len(scores)
      entries == [idx \in 1..n |->
                    [id |-> IF idx <= Len(ids) THEN ids[idx] ELSE Undefined,
                     score |-> 0 - scores[idx]]]
      ascending == SortByScore(entries)
      sorted == [p \in 1..n |-> ascending[n + 1 - p]]
      top == SubSeq(sorted, 1, Min(count, Len(sorted)))
  IN [p \in 1..Len(top) |-> top[p].id]

rankTop(scores, ids, count) ==
  LET entries == [idx \in 1..Len(scores) |->
                    [id |-> IF idx <= Len(ids) THEN ids[idx] ELSE Undefined,
                     score |-> scores[idx]]]
      sorted == SortByScore(entries)
      top == SubSeq(sorted, 1, Min(count, Len(sorted)))
  IN [p \in 1..Len(top) |-> top[p].id]

TypeError == "TypeError"
NotInitialized == "Model must be initialized before export. Call fit() first."
NoError == "none"

Returned(op, inst, id, count, value) ==
  [op |-> op, inst |-> inst, id |-> id, count |-> count,
   value |-> value, error |-> NoError]

Thrown(op, inst, id, count, error) ==
  [op |-> op, inst |-> inst, id |-> id, count |-> count,
   value |-> <<>>, error |-> error]

\* getEntities without the return on a null index.
getEntitiesNoNullCheck(m, inst, user, count) ==
  LET userIdx == getUserIndex(m.storage, user)
  IN IF m.userEmbeddings = NoTensor \/ m.entityEmbeddings = NoTensor
        \/ userIdx = Null \/ userIdx >= Rows(m.userEmbeddings)
     THEN Thrown("getEntities", inst, user, count, TypeError)
     ELSE LET userVec == SliceRow(m.userEmbeddings, userIdx, m.embeddingSize)
              values == MatVec(m.entityEmbeddings, userVec)
              entityIds == getAllEntities(m.storage)
          IN Returned("getEntities", inst, user, count,
                      rankTop(values, entityIds, count))

\* getEntities that scores and names the rows of the user matrix.
getEntitiesOverUsers(m, inst, user, count) ==
  LET userIdx == getUserIndex(m.storage, user)
  IN IF userIdx = Null THEN Returned("getEntities", inst, user, count, <<>>)
     ELSE IF m.userEmbeddings = NoTensor \/ m.entityEmbeddings = NoTensor
            \/ userIdx >= Rows(m.userEmbeddings)
     THEN Thrown("getEntities", inst, user, count, TypeError)
     ELSE LET userVec == SliceRow(m.userEmbeddings, userIdx, m.embeddingSize)
              values == MatVec(m.userEmbeddings, userVec)
              userIds == getAllUsers(m.storage)
          IN Returned("getEntities", inst, user, count,
                      rankTop(values, userIds, count))

\* What getEntities(user, count) returns or throws on the fields m.
getEntities(m, inst, user, count) ==
  LET userIdx == getUserIndex(m.storage, user)
  IN IF userIdx = Null THEN Returned("getEntities", inst, user, count, <<>>)
     ELSE IF m.userEmbeddings = NoTensor \/ m.entityEmbeddings = NoTensor
            \/ userIdx >= Rows(m.userEmbeddings)
     THEN Thrown("getEntities", inst, user, count, TypeError)
     ELSE LET userVec == SliceRow(m.userEmbeddings, userIdx, m.embeddingSize)
              values == MatVec(m.entityEmbeddings, userVec)
              entityIds == getAllEntities(m.storage)
          IN Returned("getEntities", inst, user, count,
                      rankTop(values, entityIds, count))

getUsers(m, inst, entity, count) ==
  LET entityIdx == getEntityIndex(m.storage, entity)
  IN IF entityIdx = Null THEN Returned("getUsers", inst, entity, count, <<>>)
     ELSE IF m.userEmbeddings = NoTensor \/ m.entityEmbeddings = NoTensor
            \/ entityIdx >= Rows(m.entityEmbeddings)
     THEN Thrown("getUsers", inst, entity, count, TypeError)
     ELSE LET entityVec == SliceRow(m.entityEmbeddings, entityIdx, m.embeddingSize)
              values == MatVec(m.userEmbeddings, entityVec)
              userIds == getAllUsers(m.storage)
          IN Returned("getUsers", inst, entity, count,
                      rankTop(values, userIds, count))

\* ------------------------------------------------------------- serialization
\* The document export() builds from the fields m.
ExportDocument(m) ==
  LET storageData == exportData(m.storage)
  IN [config |-> [epoch |-> m.epoch, embeddingSize |-> m.embeddingSize,
                  learningRate |-> m.learningRate, batchSize |-> m.batchSize],
      userEmbeddings |-> ToArray(m.userEmbeddings),
      entityEmbeddings |-> ToArray(m.entityEmbeddings),
      userMap |-> storageData.userMap,
      entityMap |-> storageData.entityMap,
      reverseUserMap |-> storageData.reverseUserMap,
      reverseEntityMap |-> storageData.reverseEntityMap,
      initialized |-> m.initialized,
      version |-> CurrentVersion]

\* from() that takes each matrix from the other array of the document.
FromDocumentSwapped(modelData, storage, inst) ==
  LET recommendation == Constructor(modelData.config, storage, inst)
      imported == importData(recommendation.storage,
                             [userMap |-> modelData.userMap,
                              entityMap |-> modelData.entityMap,
                              reverseUserMap |-> modelData.reverseUserMap,
                              reverseEntityMap |-> modelData.reverseEntityMap])
      ue == Tensor2d(modelData.entityEmbeddings)
      ee == Tensor2d(modelData.userEmbeddings)
  IN IF ue = NoTensor \/ ee = NoTensor THEN NoModel
     ELSE [recommendation EXCEPT !.storage = imported,
                                 !.userEmbeddings = ue,
                                 !.entityEmbeddings = ee,
                                 !.initialized = modelData.initialized]

\* from() that constructs the instance without the document's configuration.
FromDocumentOwnConfig(modelData, storage, inst) ==
  LET recommendation == Constructor([epoch |-> 1, embeddingSize |-> 1,
                                     learningRate |-> 1, batchSize |-> 1],
                                    storage, inst)
      imported == importData(recommendation.storage,
                             [userMap |-> modelData.userMap,
                              entityMap |-> modelData.entityMap,
                              reverseUserMap |-> modelData.reverseUserMap,
                              reverseEntityMap |-> modelData.reverseEntityMap])
      ue == Tensor2d(modelData.userEmbeddings)
      ee == Tensor2d(modelData.entityEmbeddings)
  IN IF ue = NoTensor \/ ee = NoTensor THEN NoModel
     ELSE [recommendation EXCEPT !.storage = imported,
                                 !.userEmbeddings = ue,
                                 !.entityEmbeddings = ee,
                                 !.initialized = modelData.initialized]

\* from() that rejects a document of another version.
FromDocumentStrict(modelData, storage, inst) ==
  LET recommendation == Constructor(modelData.config, storage, inst)
      imported == importData(recommendation.storage,
                             [userMap |-> modelData.userMap,
                              entityMap |-> modelData.entityMap,
                              reverseUserMap |-> modelData.reverseUserMap,
                              reverseEntityMap |-> modelData.reverseEntityMap])
      ue == Tensor2d(modelData.userEmbeddings)
      ee == Tensor2d(modelData.entityEmbeddings)
  IN IF ue = NoTensor \/ ee = NoTensor \/ modelData.version # CurrentVersion
     THEN NoModel
     ELSE [recommendation EXCEPT !.storage = imported,
                                 !.userEmbeddings = ue,
                                 !.entityEmbeddings = ee,
                                 !.initialized = modelData.initialized]

\* from() that leaves the flag as the constructor set it.
FromDocumentNoFlag(modelData, storage, inst) ==
  LET recommendation == Constructor(modelData.config, storage, inst)
      imported == importData(recommendation.storage,
                             [userMap |-> modelData.userMap,
                              entityMap |-> modelData.entityMap,
                              reverseUserMap |-> modelData.reverseUserMap,
                              reverseEntityMap |-> modelData.reverseEntityMap])
      ue == Tensor2d(modelData.userEmbeddings)
      ee == Tensor2d(modelData.entityEmbeddings)
  IN IF ue = NoTensor \/ ee = NoTensor THEN NoModel
     ELSE [recommendation EXCEPT !.storage = imported,
                                 !.userEmbeddings = ue,
                                 !.entityEmbeddings = ee]

\* The fields of the instance Recommendation.from(modelData) returns, or
\* NoModel when tf.tensor2d throws.
FromDocument(modelData, storage, inst) ==
  LET recommendation == Constructor(modelData.config, storage, inst)
      imported == importData(recommendation.storage,
                             [userMap |-> modelData.userMap,
                              entityMap |-> modelData.entityMap,
                              reverseUserMap |-> modelData.reverseUserMap,
                              reverseEntityMap |-> modelData.reverseEntityMap])
      ue == Tensor2d(modelData.userEmbeddings)
      ee == Tensor2d(modelData.entityEmbeddings)
  IN IF ue = NoTensor \/ ee = NoTensor THEN NoModel
     ELSE [recommendation EXCEPT !.storage = imported,
                                 !.userEmbeddings = ue,
                                 !.entityEmbeddings = ee,
                                 !.initialized = modelData.initialized]


\* JSON.stringify(modelData): the text of the file. The document holds
\* numbers, strings, booleans and arrays of them, which the text spells out.
JSONStringify(modelData) == [json |-> modelData]

NoFile == [json |-> NoDoc]
SaveFailed == "Failed to save model"


\* ------------------------------------------------------------------- actions
\* The locals of initializeEmbeddings / resizeEmbeddingsIfNeeded: the two
\* counts read from the storage and the matrix createEmbeddingsInBatches has
\* returned and that is not assigned yet.
NoSizing == [userCount |-> 0, entityCount |-> 0, created |-> NoTensor]

\* from called without its second argument.
NoStorage == [undefined |-> TRUE]

NoWarning == ""
VersionWarning == "Model version mismatch"

NoCall == [pc |-> "new", inst |-> 0, data |-> <<>>, i |-> 0, j |-> 0, e |-> 0]
NoResult == [op |-> "none", inst |-> 0, id |-> "", count |-> 0,
             value |-> <<>>, error |-> NoError]

DataLists == SeqsUpTo(Interactions, MaxData)

\* The frame of a fit call that has returned or thrown stays readable until
\* the next operation is issued.
Free(c) == calls[c].pc \in {"new", "done", "failed"}

\* No fit call is between its first and its last step, and the caller has
\* taken what the last operation returned.
Quiescent == (\A c \in CallIds : Free(c)) /\ result = NoResult

NoFrames ==
  /\ calls' = [c \in CallIds |-> NoCall]
  /\ pre' = [c \in CallIds |-> NoModel]
  /\ gradSteps' = [c \in CallIds |-> 0]
  /\ released' = [c \in CallIds |-> {}]

\* The state after new Recommendation(options) for some options of configs.
InitWith(configs) ==
  /\ \E options \in configs :
       models = [inst \in Insts |->
                   IF inst = 1 THEN Constructor(options, NewStorage, 1)
                   ELSE NoModel]
  /\ calls = [c \in CallIds |-> NoCall]
  /\ doc = NoDoc
  /\ result = NoResult
  /\ pre = [c \in CallIds |-> NoModel]
  /\ initRuns = [inst \in Insts |-> 0]
  /\ gradSteps = [c \in CallIds |-> 0]
  /\ used = 0
  /\ sizing = [c \in CallIds |-> NoSizing]
  /\ overlapped = FALSE
  /\ console = NoWarning
  /\ stepped = [inst \in Insts |-> FALSE]
  /\ given = NoDoc
  /\ file = NoFile
  /\ released = [c \in CallIds |-> {}]
  /\ supplied = NoStorage

Init == InitWith(Configs)

\* fit(data) without the early return: an empty list goes on to sizing.
FitCallNoEarlyReturn(c, inst) ==
  /\ Quiescent
  /\ c = 1
  /\ models[inst] # NoModel
  /\ \E data \in DataLists :
       /\ used + Len(data) <= MaxTotal
       /\ used' = used + Len(data)
       /\ calls' = [d \in CallIds |->
                      IF d = c
                      THEN [pc |-> IF Len(data) = 0 THEN "size" ELSE "register",
                            inst |-> inst, data |-> data,
                            i |-> 0, j |-> 0, e |-> 0]
                      ELSE NoCall]
  /\ pre' = [d \in CallIds |-> IF d = c THEN models[inst] ELSE NoModel]
  /\ gradSteps' = [d \in CallIds |-> 0]
  /\ released' = [d \in CallIds |-> {}]
  /\ UNCHANGED <<models, doc, result, initRuns,
                 sizing, overlapped, console, stepped, given, file, supplied>>

\* fit(data) up to its first await: the early return on an empty list.
FitCall(c, inst) ==
  /\ Quiescent
  /\ c = 1
  /\ models[inst] # NoModel
  /\ \E data \in DataLists :
       /\ used + Len(data) <= MaxTotal
       /\ used' = used + Len(data)
       /\ calls' = [d \in CallIds |->
                      IF d = c
                      THEN [pc |-> IF Len(data) = 0 THEN "done" ELSE "register",
                            inst |-> inst, data |-> data,
                            i |-> 0, j |-> 0, e |-> 0]
                      ELSE NoCall]
  /\ pre' = [d \in CallIds |-> IF d = c THEN models[inst] ELSE NoModel]
  /\ gradSteps' = [d \in CallIds |-> 0]
  /\ released' = [d \in CallIds |-> {}]
  /\ UNCHANGED <<models, doc, result, initRuns,
                 sizing, overlapped, console, stepped, given, file, supplied>>

\* NextPosition that steps over every second interaction of a batch.
NextPositionSkip(call, batchSize) ==
  LET batch == BatchSlice(call.data, call.i, batchSize)
  IN IF call.j + 2 < Len(batch)
     THEN [i |-> call.i, j |-> call.j + 2, done |-> FALSE]
     ELSE [i |-> call.i + batchSize, j |-> 0,
           done |-> ~(call.i + batchSize < Len(call.data))]

\* The loop variables after the interaction at position j of the batch at
\* offset i; done tells that the loop over the batches has ended.
NextPosition(call, batchSize) ==
  LET batch == BatchSlice(call.data, call.i, batchSize)
  IN IF call.j + 1 < Len(batch)
     THEN [i |-> call.i, j |-> call.j + 1, done |-> FALSE]
     ELSE [i |-> call.i + batchSize, j |-> 0,
           done |-> ~(call.i + batchSize < Len(call.data))]

\* Register on one storage object that every instance holds.
RegisterShared(c) ==
  LET call == calls[c]
      m == models[call.inst]
      batch == BatchSlice(call.data, call.i, m.batchSize)
      interaction == batch[call.j + 1]
      next == NextPosition(call, m.batchSize)
  IN /\ call.pc = "register"
     /\ models' = IF batch = <<>> THEN models
                  ELSE [inst \in Insts |->
                          IF models[inst] = NoModel THEN NoModel
                          ELSE [models[inst] EXCEPT !.storage =
                                  getOrCreateEntityIndex(
                                    getOrCreateUserIndex(@, interaction.user),
                                    interaction.entity)]]
     /\ calls' = [calls EXCEPT ![c] =
                    [call EXCEPT !.pc = IF next.done THEN "size" ELSE "register",
                                 !.i = IF next.done THEN 0 ELSE next.i,
                                 !.j = next.j]]
     /\ UNCHANGED <<doc, result, pre, initRuns, gradSteps, used,
                    sizing, overlapped, console, stepped, given, file, released, supplied>>

\* registerUsersAndEntitiesInBatches: one interaction of the current batch,
\* or one turn of the outer loop on a batch that is empty, which registers
\* nothing and adds batchSize to i.
Register(c) ==
  LET call == calls[c]
      m == models[call.inst]
      batch == BatchSlice(call.data, call.i, m.batchSize)
      interaction == batch[call.j + 1]
      next == NextPosition(call, m.batchSize)
  IN /\ call.pc = "register"
     /\ models' = IF batch = <<>> THEN models
                  ELSE [models EXCEPT ![call.inst].storage =
                          getOrCreateEntityIndex(
                            getOrCreateUserIndex(@, interaction.user),
                            interaction.entity)]
     /\ calls' = [calls EXCEPT ![c] =
                    [call EXCEPT !.pc = IF next.done THEN "size" ELSE "register",
                                 !.i = IF next.done THEN 0 ELSE next.i,
                                 !.j = next.j]]
     /\ UNCHANGED <<doc, result, pre, initRuns, gradSteps, used,
                    sizing, overlapped, console, stepped, given, file, released, supplied>>

\* The matrices resizeEmbeddingsIfNeeded has disposed of when it leaves the
\* fields grown where they were m, lines 230 and 244: the old matrix of every
\* field it has replaced. initializeEmbeddings disposes of nothing.
Disposed(m, grown) ==
  IF ~m.initialized THEN {}
  ELSE (IF grown.userEmbeddings # m.userEmbeddings
        THEN {<<"userEmbeddings", m.userEmbeddings>>} ELSE {})
         \cup (IF grown.entityEmbeddings # m.entityEmbeddings
                THEN {<<"entityEmbeddings", m.entityEmbeddings>>} ELSE {})

\* fit, lines 178-186: initialize or resize, then enter the epoch loop.
Size(c) ==
  LET call == calls[c]
      m == models[call.inst]
  IN /\ call.pc = "size"
     /\ \E sized \in (IF ~m.initialized THEN initializeEmbeddings(m)
                      ELSE resizeEmbeddingsIfNeeded(m)) :
          /\ models' = [models EXCEPT ![call.inst] = sized]
          /\ released' = [released EXCEPT ![c] = @ \cup Disposed(m, sized)]
     /\ initRuns' = [initRuns EXCEPT ![call.inst] =
                       IF ~m.initialized THEN @ + 1 ELSE @]
     /\ calls' = [calls EXCEPT ![c].pc = IF 0 < m.epoch THEN "train" ELSE "done"]
     /\ UNCHANGED <<doc, result, pre, gradSteps, used,
                    sizing, overlapped, console, stepped, given, file, supplied>>

\* trainEpochInBatches: one interaction of the current batch of epoch e.
Train(c) ==
  LET call == calls[c]
      m == models[call.inst]
      batch == BatchSlice(call.data, call.i, m.batchSize)
      interaction == batch[call.j + 1]
      userIdx == getUserIndex(m.storage, interaction.user)
      entityIdx == getEntityIndex(m.storage, interaction.entity)
      skip == userIdx = Null \/ entityIdx = Null
      outside == ~skip /\ (\/ userIdx >= Rows(m.userEmbeddings)
                           \/ entityIdx >= Rows(m.entityEmbeddings))
      next == NextPosition(call, m.batchSize)
      lastEpoch == ~(call.e + 1 < m.epoch)
  IN /\ call.pc = "train"
     /\ models' = [models EXCEPT ![call.inst] =
                     IF skip \/ outside THEN @
                     ELSE GradientStep(@, userIdx, entityIdx, interaction.rating)]
     /\ gradSteps' = [gradSteps EXCEPT ![c] =
                        IF skip \/ outside THEN @ ELSE @ + 1]
     /\ calls' = [calls EXCEPT ![c] =
                    IF outside THEN [call EXCEPT !.pc = "failed"]
                    ELSE IF ~next.done
                    THEN [call EXCEPT !.i = next.i, !.j = next.j]
                    ELSE [call EXCEPT !.i = 0, !.j = 0, !.e = call.e + 1,
                                      !.pc = IF lastEpoch THEN "done" ELSE "train"]]
     /\ stepped' = [stepped EXCEPT ![m.optimizer] =
                      IF skip \/ outside THEN @ ELSE TRUE]
     /\ UNCHANGED <<doc, result, pre, initRuns, used,
                    sizing, overlapped, console, given, file, released, supplied>>

\* getEntities looking the user up with getOrCreateUserIndex.
GetEntitiesRegistering(inst, user, count) ==
  /\ Quiescent
  /\ models[inst] # NoModel
  /\ result' = getEntities(models[inst], inst, user, count)
  /\ models' = [models EXCEPT ![inst].storage = getOrCreateUserIndex(@, user)]
  /\ NoFrames
  /\ UNCHANGED <<doc, initRuns, used,
                 sizing, overlapped, console, stepped, given, file, supplied>>

GetEntities(inst, user, count) ==
  /\ Quiescent
  /\ models[inst] # NoModel
  /\ result' = getEntities(models[inst], inst, user, count)
  /\ NoFrames
  /\ UNCHANGED <<models, doc, initRuns, used,
                 sizing, overlapped, console, stepped, given, file, supplied>>

GetUsers(inst, entity, count) ==
  /\ Quiescent
  /\ models[inst] # NoModel
  /\ result' = getUsers(models[inst], inst, entity, count)
  /\ NoFrames
  /\ UNCHANGED <<models, doc, initRuns, used,
                 sizing, overlapped, console, stepped, given, file, supplied>>

\* export() without the check of the initialized flag.
exportModelNoGuard(m, inst) ==
  IF m.userEmbeddings = NoTensor \/ m.entityEmbeddings = NoTensor
  THEN [result |-> Thrown("export", inst, "", 0, TypeError),
        document |-> NoDoc]
  ELSE [result |-> Returned("export", inst, "", 0, <<>>),
        document |-> ExportDocument(m)]

\* export(): what it returns or throws, and the document it returns.
exportModel(m, inst) ==
  IF ~m.initialized
  THEN [result |-> Thrown("export", inst, "", 0, NotInitialized),
        document |-> NoDoc]
  ELSE [result |-> Returned("export", inst, "", 0, <<>>),
        document |-> ExportDocument(m)]

Export(inst) ==
  /\ Quiescent
  /\ models[inst] # NoModel
  /\ LET exported == exportModel(models[inst], inst)
     IN /\ result' = exported.result
        /\ doc' = IF exported.document = NoDoc THEN doc ELSE exported.document
  /\ NoFrames
  /\ UNCHANGED <<models, initRuns, used,
                 sizing, overlapped, console, stepped, given, file, supplied>>

\* save(filePath): the document of export is written to the file; an error
\* of export is thrown again as a failure to save.
Save(inst) ==
  /\ Quiescent
  /\ models[inst] # NoModel
  /\ LET exported == exportModel(models[inst], inst)
     IN IF exported.document = NoDoc
        THEN /\ result' = Thrown("save", inst, "", 0, SaveFailed)
             /\ file' = file
        ELSE /\ result' = Returned("save", inst, "", 0, <<>>)
             /\ file' = JSONStringify(exported.document)
  /\ NoFrames
  /\ UNCHANGED <<models, doc, initRuns, used,
                 sizing, overlapped, console, stepped, given, supplied>>

\* The version check of from(): what it writes with console.warn.
fromWarning(modelData) ==
  IF modelData.version # CurrentVersion THEN VersionWarning ELSE NoWarning

\* Recommendation.from(modelData, storage) builds instance 2 on the storage
\* it is handed, or on a new InMemoryStorage when it is handed none.
FromInto(modelData, storage) ==
  /\ Quiescent
  /\ models[2] = NoModel
  /\ LET loaded == FromDocument(modelData,
                                IF storage = NoStorage THEN NewStorage
                                ELSE storage, 2)
     IN /\ models' = [models EXCEPT ![2] = loaded]
        /\ given' = modelData
        /\ supplied' = storage
        /\ console' = fromWarning(modelData)
        /\ result' = IF loaded = NoModel
                     THEN Thrown("from", 2, modelData.version, 0, TypeError)
                     ELSE Returned("from", 2, modelData.version, 0, <<>>)
  /\ NoFrames
  /\ UNCHANGED <<doc, initRuns, used, sizing, overlapped, stepped, file>>

\* from(modelData) without a storage.
FromWith(modelData) == FromInto(modelData, NoStorage)

\* from is handed the document export has returned.
From ==
  /\ doc # NoDoc
  /\ FromWith(doc)

\* The caller takes the value the last operation returned or threw.
Return ==
  /\ result # NoResult
  /\ result' = NoResult
  /\ console' = NoWarning
  /\ given' = NoDoc
  /\ supplied' = NoStorage
  /\ UNCHANGED <<models, calls, doc, pre, initRuns, gradSteps, used,
                 sizing, overlapped, stepped, file, released>>

Next ==
  \/ \E c \in CallIds, inst \in Insts : FitCall(c, inst)
  \/ \E c \in CallIds : Register(c)
  \/ \E c \in CallIds : Size(c)
  \/ \E c \in CallIds : Train(c)
  \/ \E inst \in Insts, user \in UserIds, count \in 0..MaxCount :
       GetEntities(inst, user, count)
  \/ \E inst \in Insts, entity \in EntityIds, count \in 0..MaxCount :
       GetUsers(inst, entity, count)
  \/ \E inst \in Insts : Export(inst)
  \/ From
  \/ Return

Spec == Init /\ [][Next]_vars


\* ------------------------------------------- fit across its suspension points
\* The sizing phase of fit as the event loop runs it: every await of
\* initializeEmbeddings and resizeEmbeddingsIfNeeded ends a step, and another
\* task can run between two steps.
AfterSizing(m) == IF 0 < m.epoch THEN "train" ELSE "done"

\* fit, line 178, and the first statement of the branch taken: the user count
\* is read from the storage.
SizeBegin(c) ==
  LET call == calls[c]
      m == models[call.inst]
  IN /\ call.pc = "size"
     /\ sizing' = [sizing EXCEPT ![c] =
                     [NoSizing EXCEPT !.userCount = Len(getAllUsers(m.storage))]]
     /\ calls' = [calls EXCEPT ![c].pc =
                    IF ~m.initialized THEN "init_entities" ELSE "resize_entities"]
     /\ UNCHANGED <<models, doc, result, pre, initRuns, gradSteps, used,
                    overlapped, console, stepped, given, file, released, supplied>>

\* The second statement of either branch: the entity count is read.
ReadEntityCount(c) ==
  LET call == calls[c]
      m == models[call.inst]
  IN /\ call.pc \in {"init_entities", "resize_entities"}
     /\ sizing' = [sizing EXCEPT ![c].entityCount = Len(getAllEntities(m.storage))]
     /\ calls' = [calls EXCEPT ![c].pc =
                    IF call.pc = "init_entities" THEN "init_create"
                    ELSE "resize_users"]
     /\ UNCHANGED <<models, doc, result, pre, initRuns, gradSteps, used,
                    overlapped, console, stepped, given, file, released, supplied>>

\* initializeEmbeddings, lines 117-120: the user matrix is created.
InitCreateUsers(c) ==
  LET call == calls[c]
      m == models[call.inst]
  IN /\ call.pc = "init_create"
     /\ \E created \in createEmbeddingsInBatches(m, sizing[c].userCount,
                                                 m.embeddingSize) :
          sizing' = [sizing EXCEPT ![c].created = created]
     /\ calls' = [calls EXCEPT ![c].pc = "init_users"]
     /\ UNCHANGED <<models, doc, result, pre, initRuns, gradSteps, used,
                    overlapped, console, stepped, given, file, released, supplied>>

\* initializeEmbeddings, lines 117-124: the user matrix is assigned and the
\* entity matrix is created.
InitAssignUsers(c) ==
  LET call == calls[c]
      m == models[call.inst]
  IN /\ call.pc = "init_users"
     /\ models' = [models EXCEPT ![call.inst].userEmbeddings = sizing[c].created]
     /\ \E created \in createEmbeddingsInBatches(m, sizing[c].entityCount,
                                                 m.embeddingSize) :
          sizing' = [sizing EXCEPT ![c].created = created]
     /\ calls' = [calls EXCEPT ![c].pc = "init_assign"]
     /\ UNCHANGED <<doc, result, pre, initRuns, gradSteps, used,
                    overlapped, console, stepped, given, file, released, supplied>>

\* initializeEmbeddings, lines 121-125: the entity matrix and the flag are
\* assigned, and fit goes on to its epoch loop.
InitAssignEntities(c) ==
  LET call == calls[c]
      m == models[call.inst]
  IN /\ call.pc = "init_assign"
     /\ models' = [models EXCEPT ![call.inst].entityEmbeddings = sizing[c].created,
                                 ![call.inst].initialized = TRUE]
     /\ initRuns' = [initRuns EXCEPT ![call.inst] = @ + 1]
     /\ sizing' = [sizing EXCEPT ![c] = NoSizing]
     /\ calls' = [calls EXCEPT ![c].pc = AfterSizing(m)]
     /\ UNCHANGED <<doc, result, pre, gradSteps, used,
                    overlapped, console, stepped, given, file, released, supplied>>

\* ResizeEntitiesFrom creating as many rows as there are slots.
ResizeEntitiesFromNoSubtract(m, entityCount) ==
  IF entityCount > Rows(m.entityEmbeddings)
  THEN {[pc |-> "resize_assign_entities", created |-> created] :
          created \in createEmbeddingsInBatches(m, entityCount, m.embeddingSize)}
  ELSE {[pc |-> AfterSizing(m), created |-> NoTensor]}

\* resizeEmbeddingsIfNeeded from the test of the entity count on, lines
\* 234-246, on the fields m: the position it stops at and the rows it has
\* created by then.
ResizeEntitiesFrom(m, entityCount) ==
  IF entityCount > Rows(m.entityEmbeddings)
  THEN {[pc |-> "resize_assign_entities", created |-> created] :
          created \in createEmbeddingsInBatches(
                        m, entityCount - Rows(m.entityEmbeddings),
                        m.embeddingSize)}
  ELSE {[pc |-> AfterSizing(m), created |-> NoTensor]}

\* ResizeUsers disposing of the old user matrix before the new rows exist.
ResizeUsersDisposeFirst(c) ==
  LET call == calls[c]
      m == models[call.inst]
  IN /\ call.pc = "resize_users"
     /\ \E next \in (IF sizing[c].userCount > Rows(m.userEmbeddings)
                     THEN {[pc |-> "resize_assign_users", created |-> created] :
                             created \in createEmbeddingsInBatches(
                               m, sizing[c].userCount - Rows(m.userEmbeddings),
                               m.embeddingSize)}
                     ELSE ResizeEntitiesFrom(m, sizing[c].entityCount)) :
          /\ sizing' = [sizing EXCEPT ![c].created = next.created]
          /\ calls' = [calls EXCEPT ![c].pc = next.pc]
          /\ released' = [released EXCEPT ![c] =
                            IF next.pc = "resize_assign_users"
                            THEN @ \cup {<<"userEmbeddings", m.userEmbeddings>>}
                            ELSE @]
     /\ UNCHANGED <<models, doc, result, pre, initRuns, gradSteps, used,
                    overlapped, console, stepped, given, file, supplied>>

\* resizeEmbeddingsIfNeeded, lines 220-225: the test of the user count and
\* the creation of the new user rows.
ResizeUsers(c) ==
  LET call == calls[c]
      m == models[call.inst]
  IN /\ call.pc = "resize_users"
     /\ \E next \in (IF sizing[c].userCount > Rows(m.userEmbeddings)
                     THEN {[pc |-> "resize_assign_users", created |-> created] :
                             created \in createEmbeddingsInBatches(
                               m, sizing[c].userCount - Rows(m.userEmbeddings),
                               m.embeddingSize)}
                     ELSE ResizeEntitiesFrom(m, sizing[c].entityCount)) :
          /\ sizing' = [sizing EXCEPT ![c].created = next.created]
          /\ calls' = [calls EXCEPT ![c].pc = next.pc]
     /\ UNCHANGED <<models, doc, result, pre, initRuns, gradSteps, used,
                    overlapped, console, stepped, given, file, released, supplied>>

\* resizeEmbeddingsIfNeeded, lines 226-239: the new rows are put behind the
\* matrix the field holds now, and the entity count is tested.
ResizeAssignUsers(c) ==
  LET call == calls[c]
      m == models[call.inst]
      grown == [m EXCEPT !.userEmbeddings = Concat2(@, sizing[c].created)]
  IN /\ call.pc = "resize_assign_users"
     /\ models' = [models EXCEPT ![call.inst] = grown]
     /\ released' = [released EXCEPT ![c] =
                       @ \cup {<<"userEmbeddings", m.userEmbeddings>>}]
     /\ \E next \in ResizeEntitiesFrom(grown, sizing[c].entityCount) :
          /\ sizing' = [sizing EXCEPT ![c].created = next.created]
          /\ calls' = [calls EXCEPT ![c].pc = next.pc]
     /\ UNCHANGED <<doc, result, pre, initRuns, gradSteps, used,
                    overlapped, console, stepped, given, file, supplied>>

\* resizeEmbeddingsIfNeeded, lines 240-245.
ResizeAssignEntities(c) ==
  LET call == calls[c]
      m == models[call.inst]
  IN /\ call.pc = "resize_assign_entities"
     /\ models' = [models EXCEPT ![call.inst].entityEmbeddings =
                     Concat2(@, sizing[c].created)]
     /\ released' = [released EXCEPT ![c] =
                       @ \cup {<<"entityEmbeddings", m.entityEmbeddings>>}]
     /\ sizing' = [sizing EXCEPT ![c] = NoSizing]
     /\ calls' = [calls EXCEPT ![c].pc = AfterSizing(m)]
     /\ UNCHANGED <<doc, result, pre, initRuns, gradSteps, used,
                    overlapped, console, stepped, given, file, supplied>>

\* One await-to-await step of the sizing phase of the fit call c.
SizeStep(c) ==
  \/ SizeBegin(c)
  \/ ReadEntityCount(c)
  \/ InitCreateUsers(c)
  \/ InitAssignUsers(c)
  \/ InitAssignEntities(c)
  \/ ResizeUsers(c)
  \/ ResizeAssignUsers(c)
  \/ ResizeAssignEntities(c)

\* getEntities / getUsers called by another task while the fit call of
\* instance 1 is suspended.
ReadEntities(user, count) ==
  /\ ~Free(1)
  /\ result = NoResult
  /\ result' = getEntities(models[1], 1, user, count)
  /\ UNCHANGED <<models, calls, doc, pre, initRuns, gradSteps, used,
                 sizing, overlapped, console, stepped, given, file, released, supplied>>

ReadUsers(entity, count) ==
  /\ ~Free(1)
  /\ result = NoResult
  /\ result' = getUsers(models[1], 1, entity, count)
  /\ UNCHANGED <<models, calls, doc, pre, initRuns, gradSteps, used,
                 sizing, overlapped, console, stepped, given, file, released, supplied>>

\* One fit call at a time on instance 1, read by another task at its
\* suspension points.
ReadNext ==
  \/ FitCall(1, 1)
  \/ Register(1)
  \/ SizeStep(1)
  \/ Train(1)
  \/ \E user \in UserIds, count \in 0..MaxCount : ReadEntities(user, count)
  \/ \E entity \in EntityIds, count \in 0..MaxCount : ReadUsers(entity, count)
  \/ Return

ReadSpec == Init /\ [][ReadNext]_vars

\* The frames of a first fit call and of a second one issued before the
\* first has returned.
Overlapping == {1, 2}

\* fit(data) on instance 1 issued whatever the other fit call is doing.
ReentrantFitCall(c) ==
  /\ calls[c].pc = "new"
  /\ \A d \in CallIds : d < c => calls[d].pc # "new"
  /\ \E data \in DataLists :
       /\ used + Len(data) <= MaxTotal
       /\ used' = used + Len(data)
       /\ calls' = [calls EXCEPT ![c] =
                      [pc |-> IF Len(data) = 0 THEN "done" ELSE "register",
                       inst |-> 1, data |-> data, i |-> 0, j |-> 0, e |-> 0]]
  /\ overlapped' = (overlapped \/ \E d \in CallIds : ~Free(d))
  /\ UNCHANGED <<models, doc, result, pre, initRuns, gradSteps,
                 sizing, console, stepped, given, file, released, supplied>>

\* Fit calls on instance 1 that nothing keeps apart.
ReentrantNext ==
  \/ \E c \in Overlapping : ReentrantFitCall(c)
  \/ \E c \in CallIds : Register(c)
  \/ \E c \in CallIds : SizeStep(c)
  \/ \E c \in CallIds : Train(c)

ReentrantSpec == Init /\ [][ReentrantNext]_vars


\* ------------------------------------------------- from on edited documents
\* The documents a caller can hand to from once export has returned exported:
\* the document itself, the document under another version string, and the
\* document with its initialized field cleared.
Documents(exported) ==
  {[exported EXCEPT !.version = version] : version \in Versions}
    \cup {[exported EXCEPT !.initialized = FALSE]}

FromEdited ==
  /\ doc # NoDoc
  /\ \E modelData \in Documents(doc) : FromWith(modelData)

\* Training, export and loading, where the loaded document may have been
\* edited after export.
LoadNext ==
  \/ \E c \in CallIds, inst \in Insts : FitCall(c, inst)
  \/ \E c \in CallIds : Register(c)
  \/ \E c \in CallIds : Size(c)
  \/ \E c \in CallIds : Train(c)
  \/ Export(1)
  \/ FromEdited
  \/ Return

LoadSpec == Init /\ [][LoadNext]_vars

\* Every operation on instance 1, save included, and from on the document
\* it has exported.
SaveNext ==
  \/ \E c \in CallIds : FitCall(c, 1)
  \/ \E c \in CallIds : Register(c)
  \/ \E c \in CallIds : Size(c)
  \/ \E c \in CallIds : Train(c)
  \/ \E user \in UserIds, count \in 0..MaxCount : GetEntities(1, user, count)
  \/ \E entity \in EntityIds, count \in 0..MaxCount : GetUsers(1, entity, count)
  \/ Export(1)
  \/ Save(1)
  \/ From
  \/ Return

SaveSpec == Init /\ [][SaveNext]_vars


\* ----------------------------------------------------------------- fromPath
\* What JSON.parse throws on a text that is no JSON value.
SyntaxError == [parsed |-> FALSE]

FileNotFound == "Model file not found"
UnexpectedEnd == "Unexpected end of JSON input"

\* The message of the error the catch clause of fromPath throws for an error
\* with the message message.
LoadFailed(message) ==
  "Failed to load model: " \o message
    \o ". Make sure you're running in a Node.js environment and the file exists."

\* A file of which only the beginning was written.
Truncated(text) == [cut |-> text]

\* JSON.parse(text): the document the text spells out, or SyntaxError.
JSONParse(text) == IF "json" \in DOMAIN text THEN text.json ELSE SyntaxError

\* fromPath that throws one error whatever went wrong.
fromPathOneError(text, storage, inst) ==
  LET modelData == JSONParse(text)
      loaded == FromDocument(modelData, storage, inst)
  IN IF text = NoFile \/ modelData = SyntaxError \/ loaded = NoModel
     THEN [model |-> NoModel, modelData |-> NoDoc, warning |-> NoWarning,
           result |-> Thrown("fromPath", inst, "", 0, LoadFailed(FileNotFound))]
     ELSE [model |-> loaded, modelData |-> modelData,
           warning |-> fromWarning(modelData),
           result |-> Returned("fromPath", inst, "", 0, <<>>)]

\* What fromPath(filePath, storage) returns or throws when the file at
\* filePath holds text (NoFile: there is no such file).
fromPath(text, storage, inst) ==
  IF text = NoFile
  THEN [model |-> NoModel, modelData |-> NoDoc, warning |-> NoWarning,
        result |-> Thrown("fromPath", inst, "", 0, LoadFailed(FileNotFound))]
  ELSE LET modelData == JSONParse(text)
       IN IF modelData = SyntaxError
          THEN [model |-> NoModel, modelData |-> NoDoc, warning |-> NoWarning,
                result |-> Thrown("fromPath", inst, "", 0,
                                  LoadFailed(UnexpectedEnd))]
          ELSE LET loaded == FromDocument(modelData, storage, inst)
               IN IF loaded = NoModel
                  THEN [model |-> NoModel, modelData |-> modelData,
                        warning |-> fromWarning(modelData),
                        result |-> Thrown("fromPath", inst, "", 0,
                                          LoadFailed(TypeError))]
                  ELSE [model |-> loaded, modelData |-> modelData,
                        warning |-> fromWarning(modelData),
                        result |-> Returned("fromPath", inst, "", 0, <<>>)]

\* Recommendation.fromPath(filePath) with the default storage builds
\* instance 2 from the file save has written, if there is one.
FromPath ==
  /\ Quiescent
  /\ models[2] = NoModel
  /\ LET loaded == fromPath(file, NewStorage, 2)
     IN /\ models' = [models EXCEPT ![2] = loaded.model]
        /\ given' = loaded.modelData
        /\ console' = loaded.warning
        /\ result' = loaded.result
  /\ supplied' = NoStorage
  /\ NoFrames
  /\ UNCHANGED <<doc, initRuns, used, sizing, overlapped, stepped, file>>

\* Another program leaves the file with only the beginning of its text.
Truncate ==
  /\ Quiescent
  /\ file # NoFile
  /\ JSONParse(file) # SyntaxError
  /\ file' = Truncated(file)
  /\ UNCHANGED <<models, calls, doc, result, pre, initRuns, gradSteps, used,
                 sizing, overlapped, console, stepped, given, released, supplied>>

\* Training and saving instance 1, and loading from the path it was saved
\* to.
PathNext ==
  \/ \E c \in CallIds : FitCall(c, 1)
  \/ \E c \in CallIds : Register(c)
  \/ \E c \in CallIds : Size(c)
  \/ \E c \in CallIds : Train(c)
  \/ Save(1)
  \/ Truncate
  \/ FromPath
  \/ Return

PathSpec == Init /\ [][PathNext]_vars


\* ------------------------------------------------------- batches and epochs
\* Configurations under which a list is cut into more than one batch, into
\* a full and a shorter batch, or fits into one batch.
TrainConfigs ==
  {[epoch |-> 2, embeddingSize |-> 1, learningRate |-> 1, batchSize |-> 1],
   [epoch |-> 1, embeddingSize |-> 1, learningRate |-> 1, batchSize |-> 2],
   [epoch |-> 3, embeddingSize |-> 1, learningRate |-> 1, batchSize |-> 3]}

TrainInit == InitWith(TrainConfigs)

\* Fit calls on instance 1, one after the other.
TrainNext ==
  \/ \E c \in CallIds : FitCall(c, 1)
  \/ \E c \in CallIds : Register(c)
  \/ \E c \in CallIds : Size(c)
  \/ \E c \in CallIds : Train(c)

TrainSpec == TrainInit /\ [][TrainNext]_vars


\* ------------------------------------------------ from on a supplied storage
\* The storages a caller can hand to from: none, a new one, and one on which
\* a user id and an entity id have been registered.
SuppliedStorages ==
  {NoStorage, NewStorage}
    \cup {getOrCreateEntityIndex(getOrCreateUserIndex(NewStorage, user), entity) :
            user \in UserIds, entity \in EntityIds}

FromSupplied ==
  /\ doc # NoDoc
  /\ \E storage \in SuppliedStorages : FromInto(doc, storage)

\* Training and export of instance 1, and from on its document with a
\* storage of the caller.
ImportNext ==
  \/ FitCall(1, 1)
  \/ Register(1)
  \/ Size(1)
  \/ Train(1)
  \/ Export(1)
  \/ FromSupplied
  \/ Return

ImportSpec == Init /\ [][ImportNext]_vars


\* ------------------------------------------------------ fit to its return
\* Options the constructor takes as they are, a batch size of 0 among them.
AcceptedConfigs ==
  {[epoch |-> 1, embeddingSize |-> 1, learningRate |-> 1, batchSize |-> 0],
   [epoch |-> 2, embeddingSize |-> 1, learningRate |-> 1, batchSize |-> 1],
   [epoch |-> 1, embeddingSize |-> 2, learningRate |-> 1, batchSize |-> 2]}

AcceptedInit == InitWith(AcceptedConfigs)

\* Fit calls on instance 1, one after the other.
FitNext ==
  \/ FitCall(1, 1)
  \/ Register(1)
  \/ Size(1)
  \/ Train(1)

\* The event loop resumes a fit call whose awaited promise has resolved: no
\* phase of a call stays ready for ever without running.
FitFairSpec ==
  /\ AcceptedInit
  /\ [][FitNext]_vars
  /\ WF_vars(Register(1))
  /\ WF_vars(Size(1))
  /\ WF_vars(Train(1))


\* -------------------------------------------- chunked matrix construction
\* Instances of batch size 1 to 3 and of embedding size 1 and 2.
ChunkConfigs ==
  {[epoch |-> 1, embeddingSize |-> embeddingSize, learningRate |-> 1,
    batchSize |-> batchSize] : embeddingSize \in 1..2, batchSize \in 1..3}

ChunkInit == InitWith(ChunkConfigs)

\* createEmbeddingsInBatches(totalSize, this.embeddingSize) on instance 1:
\* the matrix it resolves to and the chunks it has built.
CreateEmbeddings(totalSize) ==
  LET m == models[1]
  IN /\ Quiescent
     /\ \E created \in createEmbeddingsInBatches(m, totalSize, m.embeddingSize) :
          result' = Returned("createEmbeddingsInBatches", 1, "", totalSize,
                             [matrix |-> created,
                              batches |-> batches(m, totalSize)])
     /\ UNCHANGED <<models, calls, doc, pre, initRuns, gradSteps, used,
                    sizing, overlapped, console, stepped, given, file, released, supplied>>

ChunkNext ==
  \/ \E totalSize \in 0..MaxRows : CreateEmbeddings(totalSize)
  \/ Return

ChunkSpec == ChunkInit /\ [][ChunkNext]_vars


\* -------------------------------------------------------------- properties
\* Rows of a matrix field; a field that was never assigned counts as none.
RowCount(t) == IF t = NoTensor THEN 0 ELSE Rows(t)

Range(seq) == {seq[p] : p \in 1..Len(seq)}

\* The call c has returned from fit without throwing.
Returned_fit(c) == calls[c].pc = "done"

\* The ids of the list of call c that had no slot when the call was issued.
NewUsers(c) ==
  {calls[c].data[p].user : p \in 1..Len(calls[c].data)}
    \ Range(getAllUsers(pre[c].storage))

NewEntities(c) ==
  {calls[c].data[p].entity : p \in 1..Len(calls[c].data)}
    \ Range(getAllEntities(pre[c].storage))

\* C1: after any fit call that returns successfully, the user matrix has as
\* many rows as the identity index has user slots, and the entity matrix as
\* many rows as it has entity slots (an unassigned matrix counts as no rows).
C1_RowsMatchSlots ==
  \A c \in CallIds :
    Returned_fit(c) =>
      LET m == models[calls[c].inst]
      IN /\ RowCount(m.userEmbeddings) = Len(getAllUsers(m.storage))
         /\ RowCount(m.userEmbeddings) = Len(m.storage.userMap)
         /\ RowCount(m.entityEmbeddings) = Len(getAllEntities(m.storage))
         /\ RowCount(m.entityEmbeddings) = Len(m.storage.entityMap)

\* A fit on an initialized instance has returned after growing both matrices.
C1_Witness ==
  \E c \in CallIds :
    /\ Returned_fit(c)
    /\ pre[c].initialized
    /\ Rows(models[calls[c].inst].userEmbeddings) > Rows(pre[c].userEmbeddings)
    /\ Rows(models[calls[c].inst].entityEmbeddings) > Rows(pre[c].entityEmbeddings)

\* The fit call c has passed registration and sizing and has made no
\* gradient step yet.
BeforeFirstStep(c) ==
  /\ calls[c].pc \in {"train", "done"}
  /\ Len(calls[c].data) > 0
  /\ gradSteps[c] = 0

\* Every row and id of the matrix and id list before is found at the same
\* slot after.
RowsKept(before, after, idsBefore, idsAfter, d) ==
  /\ Rows(after) >= Rows(before)
  /\ \A slot \in 0..(Rows(before) - 1) :
       /\ SliceRow(after, slot, d) = SliceRow(before, slot, d)
       /\ slot + 1 <= Len(idsBefore) =>
            /\ slot + 1 <= Len(idsAfter)
            /\ idsAfter[slot + 1] = idsBefore[slot + 1]

\* C2: when fit is called on an initialized instance, after registration and
\* sizing and before the first gradient step of the call, every row that
\* existed before the call holds the value it held before the call, at the
\* same slot and for the same id: new rows are only appended.
C2_GrowKeepsRows ==
  \A c \in CallIds :
    (BeforeFirstStep(c) /\ pre[c].initialized) =>
      LET m == models[calls[c].inst]
      IN /\ RowsKept(pre[c].userEmbeddings, m.userEmbeddings,
                     getAllUsers(pre[c].storage), getAllUsers(m.storage),
                     m.embeddingSize)
         /\ RowsKept(pre[c].entityEmbeddings, m.entityEmbeddings,
                     getAllEntities(pre[c].storage), getAllEntities(m.storage),
                     m.embeddingSize)

\* A fit that brought a new user and a new entity to an initialized instance
\* is between sizing and its first gradient step.
C2_Witness ==
  \E c \in CallIds :
    /\ calls[c].pc = "train"
    /\ gradSteps[c] = 0
    /\ pre[c].initialized
    /\ NewUsers(c) # {}
    /\ NewEntities(c) # {}
    /\ Rows(models[calls[c].inst].userEmbeddings) > Rows(pre[c].userEmbeddings)

\* The fit call c is at its sizing phase on instance inst.
Sizing(c, inst) == calls[c].pc = "size" /\ calls[c].inst = inst

\* C3: on one instance the whole store is randomly initialized at most once,
\* by a non-empty fit that finds the instance uninitialized; the initialized
\* flag never goes back from true to false; and a fit on an initialized
\* instance takes the grow path, which keeps every row that exists.
C3_Step ==
  \A inst \in Insts :
    models[inst] # NoModel =>
      /\ models'[inst] # NoModel
      /\ initRuns'[inst] <= 1
      /\ models[inst].initialized =>
           /\ models'[inst].initialized
           /\ initRuns'[inst] = initRuns[inst]
           /\ (\E c \in CallIds : Sizing(c, inst)) =>
                /\ RowsKept(models[inst].userEmbeddings,
                            models'[inst].userEmbeddings,
                            getAllUsers(models[inst].storage),
                            getAllUsers(models'[inst].storage),
                            models[inst].embeddingSize)
                /\ RowsKept(models[inst].entityEmbeddings,
                            models'[inst].entityEmbeddings,
                            getAllEntities(models[inst].storage),
                            getAllEntities(models'[inst].storage),
                            models[inst].embeddingSize)
      /\ initRuns'[inst] # initRuns[inst] =>
           /\ ~models[inst].initialized
           /\ models'[inst].initialized
           /\ \E c \in CallIds : Sizing(c, inst) /\ Len(calls[c].data) > 0
      /\ (~models[inst].initialized /\ \E c \in CallIds : Sizing(c, inst)) =>
           initRuns'[inst] = initRuns[inst] + 1

C3_InitializedOnce == [][C3_Step]_vars

\* A second non-empty fit has passed sizing on an instance that the first
\* one initialized.
C3_Witness ==
  \E c \in CallIds :
    /\ calls[c].pc \in {"train", "done"}
    /\ Len(calls[c].data) > 0
    /\ pre[c].initialized
    /\ initRuns[calls[c].inst] = 1
    /\ NewUsers(c) # {}

\* C4: when a fit call has returned, every id its list introduced is returned
\* by getAllUsers / getAllEntities, and each matrix has exactly as many more
\* rows than when the call was issued as the list introduced new ids of its
\* kind (none: the row count is the same).
C4_GrowsByNewIds ==
  \A c \in CallIds :
    Returned_fit(c) =>
      LET m == models[calls[c].inst]
      IN /\ NewUsers(c) \subseteq Range(getAllUsers(m.storage))
         /\ NewEntities(c) \subseteq Range(getAllEntities(m.storage))
         /\ RowCount(m.userEmbeddings) =
              RowCount(pre[c].userEmbeddings) + Cardinality(NewUsers(c))
         /\ RowCount(m.entityEmbeddings) =
              RowCount(pre[c].entityEmbeddings) + Cardinality(NewEntities(c))

\* A second fit has returned that introduced a new entity and no new user.
C4_Witness ==
  \E c \in CallIds :
    /\ Returned_fit(c)
    /\ pre[c].initialized
    /\ NewEntities(c) # {}
    /\ NewUsers(c) = {}
    /\ Rows(models[calls[c].inst].entityEmbeddings)
         = Rows(pre[c].entityEmbeddings) + 1
    /\ Rows(models[calls[c].inst].userEmbeddings) = Rows(pre[c].userEmbeddings)

QueryOps == {"getEntities", "getUsers"}

\* No fit call is between its first and its last step.
NoFitInProgress == \A c \in CallIds : Free(c)

\* What every getEntities and getUsers call returns or throws on the fields m.
Answers(m) ==
  <<[user \in UserIds, count \in 0..MaxCount |->
       getEntities(m, 0, user, count)],
    [entity \in EntityIds, count \in 0..MaxCount |->
       getUsers(m, 0, entity, count)]>>

\* C5: for a trained model M with no operation in progress, export succeeds,
\* from of the exported document succeeds, and for every id and every count
\* the loaded model gives the same ordered list (and the same outcome) as M
\* for getEntities and for getUsers.
C5_RoundTripSameAnswers ==
  \A inst \in Insts :
    (Quiescent /\ models[inst] # NoModel /\ models[inst].initialized) =>
      LET exported == exportModel(models[inst], inst)
          loaded == FromDocument(exported.document, NewStorage, 2)
      IN /\ exported.result.error = NoError
         /\ exported.document # NoDoc
         /\ loaded # NoModel
         /\ Answers(loaded) = Answers(models[inst])

\* The instance built from the document of instance 1, which has not changed
\* since, has answered a getEntities call with two ids, the same two ids in
\* the same order as instance 1 gives.
C5_Witness ==
  /\ models[2] # NoModel
  /\ doc = ExportDocument(models[1])
  /\ models[2] = FromDocument(doc, NewStorage, 2)
  /\ result.op = "getEntities"
  /\ result.inst = 2
  /\ Len(result.value) = 2
  /\ result.value = getEntities(models[1], 1, result.id, result.count).value

\* The slot of the id a query was given, in the index of the queried instance.
QuerySlot(r) ==
  IF r.op = "getEntities" THEN getUserIndex(models[r.inst].storage, r.id)
  ELSE getEntityIndex(models[r.inst].storage, r.id)

\* The ids of the candidate rows of a query, by slot, and their matrix.
CandidateIds(r) ==
  IF r.op = "getEntities" THEN getAllEntities(models[r.inst].storage)
  ELSE getAllUsers(models[r.inst].storage)

CandidateMatrix(r) ==
  IF r.op = "getEntities" THEN models[r.inst].entityEmbeddings
  ELSE models[r.inst].userEmbeddings

QueryMatrix(r) ==
  IF r.op = "getEntities" THEN models[r.inst].userEmbeddings
  ELSE models[r.inst].entityEmbeddings

\* The dot product of the query row with the candidate row at slot.
Score(r, slot) ==
  LET d == models[r.inst].embeddingSize
  IN Dot(SliceRow(QueryMatrix(r), QuerySlot(r), d),
         SliceRow(CandidateMatrix(r), slot, d))

SlotOfCandidate(r, id) ==
  CHOOSE slot \in 0..(Len(CandidateIds(r)) - 1) : CandidateIds(r)[slot + 1] = id

\* The candidate at slot x ranks before the candidate at slot y.
RanksBefore(r, x, y) ==
  \/ Score(r, x) > Score(r, y)
  \/ Score(r, x) = Score(r, y) /\ x < y

\* C6: for a known query id and any count, getEntities / getUsers return
\* without error exactly min(count, candidate rows) ids, all of them ids of
\* candidate rows, none twice, in descending order of dot-product score with
\* equal scores in ascending slot order, and every candidate left out ranks
\* after every id returned.
C6_RankedTopK ==
  (result.op \in QueryOps /\ QuerySlot(result) # Null) =>
    LET value == result.value
        ids == CandidateIds(result)
        n == RowCount(CandidateMatrix(result))
    IN /\ result.error = NoError
       /\ Len(value) = Min(result.count, n)
       /\ n = 0 => value = <<>>
       /\ \A p \in 1..Len(value) : value[p] \in Range(ids)
       /\ \A p, q \in 1..Len(value) : p # q => value[p] # value[q]
       /\ \A p \in 1..(Len(value) - 1) :
            RanksBefore(result, SlotOfCandidate(result, value[p]),
                        SlotOfCandidate(result, value[p + 1]))
       /\ \A x \in 0..(n - 1) :
            ids[x + 1] \notin Range(value) =>
              \A p \in 1..Len(value) :
                RanksBefore(result, SlotOfCandidate(result, value[p]), x)

\* A query for a known id with count 1 has returned one of two candidates
\* whose scores differ.
C6_Witness ==
  /\ result.op \in QueryOps
  /\ QuerySlot(result) # Null
  /\ result.count = 1
  /\ Len(result.value) = 1
  /\ Rows(CandidateMatrix(result)) = 2
  /\ Score(result, 0) < Score(result, 1)
  /\ result.value = <<CandidateIds(result)[2]>>

\* What the call that gave the result r gives when it is made again.
Again(r, m) ==
  IF r.op = "getEntities" THEN getEntities(m, r.inst, r.id, r.count)
  ELSE getUsers(m, r.inst, r.id, r.count)

\* A step that is not a step of a fit leaves what every getEntities and
\* getUsers call returns as it was.
C7_Step ==
  NoFitInProgress =>
    \A inst \in Insts :
      models[inst] # NoModel =>
        /\ models'[inst] # NoModel
        /\ \/ models'[inst] = models[inst]
           \/ Answers(models'[inst]) = Answers(models[inst])

\* The call that has returned gives the identical list when it is made
\* again, and ids with equal scores are returned in ascending slot order.
C7_Repeatable ==
  result.op \in QueryOps =>
    /\ result = Again(result, models[result.inst])
    /\ QuerySlot(result) # Null =>
         \A p, q \in 1..Len(result.value) :
           (p < q /\ Score(result, SlotOfCandidate(result, result.value[p]))
                       = Score(result, SlotOfCandidate(result, result.value[q])))
             => SlotOfCandidate(result, result.value[p])
                  < SlotOfCandidate(result, result.value[q])

\* C7: ranking is deterministic: with no step of a fit in between, two
\* getEntities (or getUsers) calls with the same arguments return identical
\* ordered lists, and ids with equal scores come out in slot order.
C7_Deterministic == []C7_Repeatable /\ [][C7_Step]_vars

\* A getUsers call on an instance that has taken gradient steps has returned
\* two ids whose scores are equal.
C7_Witness ==
  /\ result.op = "getUsers"
  /\ QuerySlot(result) # Null
  /\ Len(result.value) = 2
  /\ models[result.inst].epoch > 0
  /\ Score(result, 0) = Score(result, 1)
  /\ result.value = getAllUsers(models[result.inst].storage)

\* C8: a getEntities / getUsers call with an id that has no slot returns the
\* empty list, raises no error, changes no instance, and the id has no slot
\* afterwards either.
C8_Step ==
  (result = NoResult /\ result'.op \in QueryOps /\ QuerySlot(result)' = Null) =>
    /\ result'.value = <<>>
    /\ result'.error = NoError
    /\ models' = models
    /\ result'.id \notin Range(getAllUsers(models'[result'.inst].storage))
                          \cup Range(getAllEntities(models'[result'.inst].storage))

C8_UnknownIdEmpty == [][C8_Step]_vars

\* A getEntities call on an instance that was never fitted has returned.
C8_Witness ==
  /\ result.op = "getEntities"
  /\ models[result.inst].userEmbeddings = NoTensor
  /\ ~models[result.inst].initialized
  /\ QuerySlot(result) = Null
  /\ result.value = <<>>
  /\ result.error = NoError

\* C9: export on an instance that is not initialized throws the
\* not-initialized error, returns no document and changes no instance; on an
\* initialized instance it returns the document without that error.
C9_Step ==
  (result = NoResult /\ result'.op = "export") =>
    LET m == models[result'.inst]
    IN /\ models' = models
       /\ IF ~m.initialized
          THEN /\ result'.error = NotInitialized
               /\ exportModel(m, result'.inst).document = NoDoc
               /\ doc' = doc
          ELSE /\ result'.error = NoError
               /\ doc' # NoDoc
               /\ doc' = ExportDocument(m)

C9_ExportNeedsInit == [][C9_Step]_vars

\* export has thrown on an instance that was only fitted with an empty list.
C9_Witness ==
  /\ result.op = "export"
  /\ result.error = NotInitialized
  /\ ~models[result.inst].initialized
  /\ doc = NoDoc

\* C10: a fit call with an empty list has returned as soon as it is issued,
\* and the instance is field for field what it was when the call was issued:
\* no id registered, the initialized flag and every row as they were, and no
\* gradient step made.
C10_EmptyFitNoOp ==
  \A c \in CallIds :
    (calls[c].pc # "new" /\ calls[c].data = <<>>) =>
      /\ Returned_fit(c)
      /\ models[calls[c].inst] = pre[c]
      /\ models[calls[c].inst].initialized = pre[c].initialized
      /\ gradSteps[c] = 0

\* A fit with an empty list has returned on an instance that is still not
\* initialized.
C10_Witness ==
  \E c \in CallIds :
    /\ calls[c].pc = "done"
    /\ calls[c].data = <<>>
    /\ ~models[calls[c].inst].initialized
    /\ models[calls[c].inst].userEmbeddings = NoTensor

\* The ids registered in the index of the instance a query was made on, of
\* the kind the query returns.
RegisteredCandidates(r) ==
  Range(IF r.op = "getEntities" THEN getAllEntities(models[r.inst].storage)
        ELSE getAllUsers(models[r.inst].storage))

\* C11: a getEntities or getUsers call made while a fit call on the same
\* instance is suspended, in whatever phase, raises no error and returns only
\* registered ids.
C11_ReadsDuringFit ==
  (result.op \in QueryOps /\ ~Free(1)) =>
    /\ result.error = NoError
    /\ \A p \in 1..Len(result.value) :
         result.value[p] \in RegisteredCandidates(result)

\* Every fit call that was issued has come to its end, by returning or by
\* throwing.
AllFitsEnded == \A c \in CallIds : calls[c].pc \in {"new", "done", "failed"}

\* A matrix of instance 1 has another number of rows than its kind has slots.
Misaligned ==
  \/ RowCount(models[1].userEmbeddings) # Len(getAllUsers(models[1].storage))
  \/ RowCount(models[1].entityEmbeddings) # Len(getAllEntities(models[1].storage))

\* C12: nothing keeps a second fit from starting while a first one is
\* suspended, and rows and slots of the instance differ after all calls have
\* ended only if two fit calls overlapped; C12_Witness is the interleaving
\* that leaves them different after both calls have returned.
C12_MisalignedOnlyByOverlap == (AllFitsEnded /\ Misaligned) => overlapped

C12_Witness ==
  /\ \A c \in Overlapping : Returned_fit(c)
  /\ overlapped
  /\ Misaligned

\* from has just returned instance 2 in this step.
Loaded == given = NoDoc /\ given' # NoDoc /\ models'[2] # NoModel

\* C13: a model returned by from(document) for a document whose initialized
\* field is true starts initialized, with both matrices equal row for row to
\* the document's arrays; from then on the store of that model is never
\* randomly initialized, and the sizing phase of a fit keeps every loaded row
\* at its slot.
C13_Step ==
  /\ Loaded =>
       /\ ToArray(models'[2].userEmbeddings) = given'.userEmbeddings
       /\ ToArray(models'[2].entityEmbeddings) = given'.entityEmbeddings
       /\ initRuns'[2] = 0
       /\ given'.initialized => models'[2].initialized
  /\ (models[2] # NoModel /\ models[2].initialized /\ initRuns[2] = 0) =>
       /\ models'[2].initialized
       /\ initRuns'[2] = 0
       /\ (\E c \in CallIds : Sizing(c, 2)) =>
            /\ RowsKept(models[2].userEmbeddings, models'[2].userEmbeddings,
                        getAllUsers(models[2].storage),
                        getAllUsers(models'[2].storage),
                        models[2].embeddingSize)
            /\ RowsKept(models[2].entityEmbeddings, models'[2].entityEmbeddings,
                        getAllEntities(models[2].storage),
                        getAllEntities(models'[2].storage),
                        models[2].embeddingSize)

C13_LoadedInitializedKeepsRows == [][C13_Step]_vars

\* A fit that brought a new id to a model loaded as initialized has passed
\* its sizing phase.
C13_Witness ==
  \E c \in CallIds :
    /\ calls[c].inst = 2
    /\ calls[c].pc \in {"train", "done"}
    /\ pre[c].initialized
    /\ NewUsers(c) \cup NewEntities(c) # {}
    /\ initRuns[2] = 0

\* C13 as stated, for every document from accepts: the returned model is
\* initialized and its store is never randomly initialized.
C13_EveryLoadedInitialized ==
  models[2] # NoModel =>
    /\ initRuns[2] = 0
    /\ given # NoDoc => models[2].initialized

\* C14: from on a document whose version is not the supported one does not
\* throw; it writes the version warning and returns a model with the
\* configuration, mappings, matrices and flag that from returns for the same
\* document under the supported version.
C14_Step ==
  (given = NoDoc /\ given' # NoDoc /\ given'.version # CurrentVersion) =>
    LET supported == FromDocument([given' EXCEPT !.version = CurrentVersion],
                                  NewStorage, 2)
    IN /\ result'.op = "from"
       /\ result'.error = NoError
       /\ console' = VersionWarning
       /\ models'[2] # NoModel
       /\ models'[2] = supported
       /\ models'[2].epoch = given'.config.epoch
       /\ models'[2].embeddingSize = given'.config.embeddingSize
       /\ models'[2].learningRate = given'.config.learningRate
       /\ models'[2].batchSize = given'.config.batchSize
       /\ getAllUsers(models'[2].storage) = given'.reverseUserMap
       /\ getAllEntities(models'[2].storage) = given'.reverseEntityMap
       /\ ToArray(models'[2].userEmbeddings) = given'.userEmbeddings
       /\ ToArray(models'[2].entityEmbeddings) = given'.entityEmbeddings
       /\ models'[2].initialized = given'.initialized

C14_VersionMismatchWarns == [][C14_Step]_vars

\* from has returned a model for a document of another version.
C14_Witness ==
  /\ given # NoDoc
  /\ given.version # CurrentVersion
  /\ result.op = "from"
  /\ result.error = NoError
  /\ console = VersionWarning
  /\ models[2] # NoModel

\* C15: on a model in which the id asked about is registered and on which no
\* gradient step was ever made, getUsers(entity, count) and
\* getEntities(user, count) raise no error and return at most count ids, all
\* of them registered ids of the kind asked for.
C15_UntrainedReadsAnswer ==
  (result.op \in QueryOps /\ QuerySlot(result) # Null
     /\ ~stepped[result.inst]) =>
    /\ result.error = NoError
    /\ Len(result.value) <= result.count
    /\ Range(result.value) \subseteq RegisteredCandidates(result)

\* The forward map and the reverse array of one kind of id: the slots are
\* 0..n-1, no id and no slot occurs twice, and the reverse array holds at
\* each slot the id mapped to it.
IndexConsistent(map, reverse) ==
  /\ {map[i][2] : i \in 1..Len(map)} = 0..(Len(map) - 1)
  /\ \A i, j \in 1..Len(map) :
       (map[i][1] = map[j][1] \/ map[i][2] = map[j][2]) => i = j
  /\ Len(reverse) = Len(map)
  /\ \A i \in 1..Len(map) : reverse[map[i][2] + 1] = map[i][1]

\* Each kind is numbered on its own, and registering a registered id again
\* changes nothing.
C16_Consistent ==
  \A inst \in Insts :
    models[inst] # NoModel =>
      LET st == models[inst].storage
      IN /\ IndexConsistent(st.userMap, getAllUsers(st))
         /\ IndexConsistent(st.entityMap, getAllEntities(st))
         /\ \A id \in Range(getAllUsers(st)) : getOrCreateUserIndex(st, id) = st
         /\ \A id \in Range(getAllEntities(st)) :
              getOrCreateEntityIndex(st, id) = st

\* The slot of a registered id is the same after every step.
C16_Step ==
  \A inst \in Insts :
    models[inst] # NoModel =>
      /\ models'[inst] # NoModel
      /\ \A id \in UserIds :
           getUserIndex(models[inst].storage, id) # Null =>
             getUserIndex(models'[inst].storage, id)
               = getUserIndex(models[inst].storage, id)
      /\ \A id \in EntityIds :
           getEntityIndex(models[inst].storage, id) # Null =>
             getEntityIndex(models'[inst].storage, id)
               = getEntityIndex(models[inst].storage, id)

\* C16: in the identity index the slots of each kind are exactly 0..n-1,
\* distinct ids have distinct slots, getAllUsers / getAllEntities hold at each
\* slot the id mapped to it, a slot once given to an id stays with it (a
\* repeated getOrCreate adds nothing), and users and entities are numbered
\* independently.
C16_SlotsGapFreeStable == []C16_Consistent /\ [][C16_Step]_vars

\* A fit has registered a list of two users that names the same entity
\* twice: slots 0 and 1 are used for users, slot 0 also for the entity.
C16_Witness ==
  \E c \in CallIds :
    /\ calls[c].pc = "size"
    /\ Len(calls[c].data) = 2
    /\ calls[c].data[1].entity = calls[c].data[2].entity
    /\ calls[c].data[1].user # calls[c].data[2].user
    /\ LET st == models[calls[c].inst].storage
       IN /\ getUserIndex(st, calls[c].data[1].user) = 0
          /\ getUserIndex(st, calls[c].data[2].user) = 1
          /\ getEntityIndex(st, calls[c].data[1].entity) = 0
          /\ Len(getAllEntities(st)) = 1

\* C17: while fit calls do not overlap, no step of fit, getEntities,
\* getUsers, export or from makes a matrix of an instance shorter.
C17_Step ==
  \A inst \in Insts :
    models[inst] # NoModel =>
      /\ models'[inst] # NoModel
      /\ RowCount(models'[inst].userEmbeddings)
           >= RowCount(models[inst].userEmbeddings)
      /\ RowCount(models'[inst].entityEmbeddings)
           >= RowCount(models[inst].entityEmbeddings)

C17_RowsNeverShrink == [][C17_Step]_vars

\* A fit on an initialized instance has returned with one matrix longer
\* than before and the other as long as before.
C17_Witness ==
  \E c \in CallIds :
    /\ Returned_fit(c)
    /\ pre[c] # NoModel
    /\ pre[c].initialized
    /\ LET m == models[calls[c].inst]
       IN /\ Rows(m.entityEmbeddings) > Rows(pre[c].entityEmbeddings)
          /\ Rows(m.userEmbeddings) = Rows(pre[c].userEmbeddings)

\* The fields m after one step of the optimizer on the squared error of the
\* dot product of rows userIdx and entityIdx against target.
StepTowards(m, userIdx, entityIdx, target) ==
  LET d == m.embeddingSize
      userVec == SliceRow(m.userEmbeddings, userIdx, d)
      entityVec == SliceRow(m.entityEmbeddings, entityIdx, d)
      err == Dot(userVec, entityVec) - target
  IN [m EXCEPT
        !.userEmbeddings = WithRow(@, userIdx,
           [j \in 1..d |-> userVec[j] - m.learningRate * Sign(2 * err * entityVec[j])]),
        !.entityEmbeddings = WithRow(@, entityIdx,
           [j \in 1..d |-> entityVec[j] - m.learningRate * Sign(2 * err * userVec[j])])]

\* The interaction the fit call c trains on next.
CurrentInteraction(c) ==
  BatchSlice(calls[c].data, calls[c].i,
             models[calls[c].inst].batchSize)[calls[c].j + 1]

\* C18: a gradient step for an interaction without rating steps towards
\* target 1, as for rating 1; a gradient step for an interaction with a
\* rating, 0 included, steps towards that rating.
C18_Step ==
  \A c \in CallIds :
    (calls[c].pc = "train" /\ gradSteps'[c] = gradSteps[c] + 1) =>
      LET inst == calls[c].inst
          m == models[inst]
          interaction == CurrentInteraction(c)
          userIdx == getUserIndex(m.storage, interaction.user)
          entityIdx == getEntityIndex(m.storage, interaction.entity)
      IN /\ interaction.rating = NoRating =>
              /\ models'[inst] = StepTowards(m, userIdx, entityIdx, 1)
              /\ models'[inst] = GradientStep(m, userIdx, entityIdx, 1)
         /\ interaction.rating # NoRating =>
              models'[inst] = StepTowards(m, userIdx, entityIdx,
                                          interaction.rating)

C18_MissingRatingIsOne == [][C18_Step]_vars

\* A fit call has made a gradient step for an interaction without rating
\* and one for an interaction with rating 0.
C18_Witness ==
  \E c \in CallIds :
    /\ calls[c].pc \in {"train", "done"}
    /\ gradSteps[c] >= 2
    /\ \E p, q \in 1..Len(calls[c].data) :
         /\ calls[c].data[p].rating = NoRating
         /\ calls[c].data[q].rating = 0

\* The four configuration values of the fields m.
Configuration(m) ==
  [epoch |-> m.epoch, embeddingSize |-> m.embeddingSize,
   learningRate |-> m.learningRate, batchSize |-> m.batchSize]

\* C19: no step of fit, getEntities, getUsers, export or save changes the
\* epoch, embeddingSize, learningRate or batchSize of an instance, and the
\* instance from returns has the four values of the document it was given.
C19_Step ==
  /\ \A inst \in Insts :
       models[inst] # NoModel =>
         /\ models'[inst] # NoModel
         /\ Configuration(models'[inst]) = Configuration(models[inst])
  /\ (given = NoDoc /\ given' # NoDoc /\ models'[2] # NoModel) =>
       Configuration(models'[2]) = given'.config

C19_ConfigurationFixed == [][C19_Step]_vars

\* Instance 1 has been fitted and saved, instance 2 has been built from its
\* document, and a query on instance 1 has returned.
C19_Witness ==
  /\ file # NoFile
  /\ models[2] # NoModel
  /\ Configuration(models[2]) = file.json.config
  /\ result.op \in QueryOps
  /\ result.inst = 1
  /\ Len(result.value) > 0

\* The fit call c was made on a new instance, with a list whose interactions
\* all name the entity entity, and has returned.
FittedSingleEntity(c, entity) ==
  /\ Returned_fit(c)
  /\ pre[c] # NoModel
  /\ ~pre[c].initialized
  /\ pre[c].storage = NewStorage
  /\ Len(calls[c].data) > 0
  /\ \A p \in 1..Len(calls[c].data) : calls[c].data[p].entity = entity

\* C20: after fit on a new model with a list that names one entity only,
\* getEntities(u, k) with k >= 1 returns the list of just that entity for
\* every user u of the list.
C20_Step ==
  \A c \in CallIds, entity \in EntityIds :
    (/\ FittedSingleEntity(c, entity)
     /\ result = NoResult
     /\ result'.op = "getEntities"
     /\ result'.inst = calls[c].inst
     /\ result'.count >= 1
     /\ \E p \in 1..Len(calls[c].data) : calls[c].data[p].user = result'.id) =>
      /\ result'.error = NoError
      /\ result'.value = <<entity>>

C20_SingleEntityReturned == [][C20_Step]_vars

\* getEntities with count 2 has answered for the second of two users that
\* one fit registered with the same entity.
C20_Witness ==
  /\ result.op = "getEntities"
  /\ result.inst = 1
  /\ result.count = 2
  /\ result.error = NoError
  /\ result.value = <<"e1">>
  /\ getUserIndex(models[1].storage, result.id) = 1
  /\ getAllEntities(models[1].storage) = <<"e1">>
  /\ used = 2
  /\ initRuns[1] = 1
  /\ models[2] = NoModel

\* C21: fromPath on a path where there is no file throws the file-not-found
\* failure, fromPath on a file whose text does not parse throws the parse
\* failure, in both cases no instance is built, and the message of the
\* error tells which of the two happened.
C21_LoadFailuresTold ==
  result.op = "fromPath" =>
    /\ (result.error = LoadFailed(FileNotFound)) = (file = NoFile)
    /\ (result.error = LoadFailed(UnexpectedEnd))
         = (file # NoFile /\ JSONParse(file) = SyntaxError)
    /\ (result.error # NoError) => models[2] = NoModel
    /\ (file = NoFile \/ JSONParse(file) = SyntaxError) => result.error # NoError

\* fromPath has failed on a file that was saved and then cut short.
C21_Witness ==
  /\ result.op = "fromPath"
  /\ file # NoFile
  /\ JSONParse(file) = SyntaxError
  /\ result.error = LoadFailed(UnexpectedEnd)
  /\ models[2] = NoModel

\* A fit call that has returned has made epoch times n gradient steps, and
\* one that is training has made e times n steps in the epochs before and
\* as many in this epoch as interactions lie before its position.
C22_Counted ==
  \A c \in CallIds :
    LET n == Len(calls[c].data)
        m == models[calls[c].inst]
    IN /\ (Returned_fit(c) /\ n > 0) => gradSteps[c] = m.epoch * n
       /\ calls[c].pc = "train" =>
            /\ calls[c].e < m.epoch
            /\ gradSteps[c] = calls[c].e * n + calls[c].i + calls[c].j
            /\ calls[c].i + calls[c].j < n

\* The step of a training fit call is the gradient step for the interaction
\* of the list that follows the one of the step before, on the rows as they
\* are.
C22_Step ==
  \A c \in CallIds :
    calls[c].pc = "train" =>
      LET n == Len(calls[c].data)
          inst == calls[c].inst
          m == models[inst]
          interaction == calls[c].data[(gradSteps[c] % n) + 1]
      IN /\ gradSteps'[c] = gradSteps[c] + 1
         /\ models'[inst] =
              GradientStep(m, getUserIndex(m.storage, interaction.user),
                           getEntityIndex(m.storage, interaction.entity),
                           interaction.rating)

\* C22: a fit call on n interactions under epoch E makes exactly E * n
\* gradient steps, one per interaction and epoch, in list order whatever the
\* batch size, each on the rows the step before has left.
C22_EveryInteractionEachEpoch == []C22_Counted /\ [][C22_Step]_vars

\* A fit on two interactions cut into two batches has returned after two
\* epochs.
C22_Witness ==
  \E c \in CallIds :
    /\ Returned_fit(c)
    /\ Len(calls[c].data) = 2
    /\ calls[c].data[1] # calls[c].data[2]
    /\ models[calls[c].inst].batchSize = 1
    /\ models[calls[c].inst].epoch = 2
    /\ gradSteps[c] = 4

\* Every id of the list of the fit call c has a slot in the index of its
\* instance.
ListRegistered(c) ==
  \A p \in 1..Len(calls[c].data) :
    /\ getUserIndex(models[calls[c].inst].storage, calls[c].data[p].user) # Null
    /\ getEntityIndex(models[calls[c].inst].storage,
                      calls[c].data[p].entity) # Null

\* Sizing starts when the whole list is registered, training when each
\* matrix has a row for every slot, and no gradient step has found a slot
\* outside its matrix.
C23_Phases ==
  \A c \in CallIds :
    LET m == models[calls[c].inst]
    IN /\ calls[c].pc # "failed"
       /\ calls[c].pc \in {"size", "train"} => ListRegistered(c)
       /\ calls[c].pc = "train" =>
            /\ m.initialized
            /\ Rows(m.userEmbeddings) = Len(getAllUsers(m.storage))
            /\ Rows(m.entityEmbeddings) = Len(getAllEntities(m.storage))

\* A fit call registers while it is in its registration phase only, and the
\* slots of the interaction of a gradient step lie inside the matrices.
C23_Step ==
  \A c \in CallIds :
    LET inst == calls[c].inst
        m == models[inst]
    IN /\ (calls[c].pc \in {"size", "train"}) =>
            models'[inst].storage = m.storage
       /\ calls[c].pc = "train" =>
            LET interaction == CurrentInteraction(c)
            IN /\ getUserIndex(m.storage, interaction.user)
                    < Rows(m.userEmbeddings)
               /\ getEntityIndex(m.storage, interaction.entity)
                    < Rows(m.entityEmbeddings)
               /\ Rows(models'[inst].userEmbeddings) = Rows(m.userEmbeddings)
               /\ Rows(models'[inst].entityEmbeddings)
                    = Rows(m.entityEmbeddings)

\* C23: in a fit that no other fit overlaps, registration, sizing and
\* optimization follow each other, so every gradient step finds the user
\* slot and the entity slot of its interaction inside the matrices, on a
\* new, a fitted and a loaded instance alike.
C23_StepsInsideMatrices == []C23_Phases /\ [][C23_Step]_vars

\* A fit that brought a new entity to an instance loaded by from has made a
\* gradient step.
C23_Witness ==
  \E c \in CallIds :
    /\ calls[c].inst = 2
    /\ calls[c].pc \in {"train", "done"}
    /\ gradSteps[c] > 0
    /\ NewEntities(c) # {}
    /\ initRuns[2] = 0

\* The matrix now is the matrix old itself, or old followed by new rows up to
\* one row for each of the count slots.
OldOrGrown(now, old, count, d) ==
  \/ now = old
  \/ /\ Rows(now) = count
     /\ Rows(now) > Rows(old)
     /\ \A slot \in 0..(Rows(old) - 1) :
          SliceRow(now, slot, d) = SliceRow(old, slot, d)

\* The positions of a fit call inside resizeEmbeddingsIfNeeded.
ResizePcs ==
  {"resize_entities", "resize_users", "resize_assign_users",
   "resize_assign_entities"}

\* C24: at every suspension point of a fit call that is growing the matrices
\* of an initialized instance, each matrix field holds either the whole old
\* matrix or the whole new one, and a field never holds a matrix the call has
\* disposed of, so that a read made at that point finds neither a partial nor
\* a released matrix.
C24_OldOrNewNeverReleased ==
  \A c \in CallIds :
    (~Free(c) /\ pre[c] # NoModel /\ pre[c].initialized) =>
      LET m == models[calls[c].inst]
          old == pre[c]
      IN /\ <<"userEmbeddings", m.userEmbeddings>> \notin released[c]
         /\ <<"entityEmbeddings", m.entityEmbeddings>> \notin released[c]
         /\ calls[c].pc \in ResizePcs =>
              /\ OldOrGrown(m.userEmbeddings, old.userEmbeddings,
                            Len(getAllUsers(m.storage)), m.embeddingSize)
              /\ OldOrGrown(m.entityEmbeddings, old.entityEmbeddings,
                            Len(getAllEntities(m.storage)), m.embeddingSize)

\* A read made during a fit call has been answered, and the call has
\* switched the user field to the grown matrix, has disposed of the old one,
\* and has not yet switched the entity field, which has to grow too.
C24_Witness ==
  /\ result.op \in QueryOps
  /\ \E c \in CallIds :
       /\ calls[c].pc = "resize_assign_entities"
       /\ pre[c] # NoModel
       /\ <<"userEmbeddings", pre[c].userEmbeddings>> \in released[c]
       /\ Rows(models[calls[c].inst].userEmbeddings)
            > Rows(pre[c].userEmbeddings)
       /\ models[calls[c].inst].entityEmbeddings = pre[c].entityEmbeddings
       /\ Len(getAllEntities(models[calls[c].inst].storage))
            > Rows(models[calls[c].inst].entityEmbeddings)

\* C25: for every row count n >= 0 and every batch size >= 1 the chunked
\* construction returns a matrix of exactly n rows of the embedding size; the
\* chunks have between 1 and batchSize rows each, all but the last are equally
\* long, and their rows sum to n; for n = 0 it builds no chunk and returns
\* the empty matrix.
C25_ChunksSumToRows ==
  result.op = "createEmbeddingsInBatches" =>
    LET n == result.count
        d == models[1].embeddingSize
        matrix == result.value.matrix
        chunks == result.value.batches
    IN /\ matrix.shape = <<n, d>>
       /\ Len(matrix.vals) = n * d
       /\ SumSeq(chunks) = n
       /\ \A p \in 1..Len(chunks) :
            /\ chunks[p] >= 1
            /\ chunks[p] <= models[1].batchSize
            /\ p < Len(chunks) => chunks[p] = chunks[1]
            /\ chunks[p] <= chunks[1]
       /\ n = 0 => chunks = <<>> /\ matrix.vals = <<>>

\* Three rows were built on an instance of batch size 2: a chunk of two rows
\* and a last chunk of one.
C25_Witness ==
  /\ result.op = "createEmbeddingsInBatches"
  /\ result.count = 3
  /\ models[1].batchSize = 2
  /\ result.value.batches = <<2, 1>>
  /\ Rows(result.value.matrix) = 3

\* The array has one row for each id of the reverse list and one for each
\* entry of the forward map, and the forward map sends the id at position i
\* of the reverse list to slot i.
ArraysMatchMaps(array, forward, reverse) ==
  /\ Len(array) = Len(reverse)
  /\ Len(forward) = Len(reverse)
  /\ \A i \in 1..Len(reverse) : <<reverse[i], i - 1>> \in Range(forward)

\* The array holds the rows of the matrix, slot after slot.
InSlotOrder(array, matrix, d) ==
  /\ Len(array) = Rows(matrix)
  /\ \A i \in 1..Len(array) : array[i] = SliceRow(matrix, i - 1, d)

\* C26: every document export has returned, with no fit call in progress, has
\* initialized = true and the current version string, and its arrays and
\* maps agree: each array has as many rows as its reverse list and its
\* forward map have entries, and the forward map sends reverse[i] to i; when
\* export returns, the document carries the configuration of the instance
\* and the rows of its matrices in slot order.
C26_ExportedDocumentConsistent ==
  /\ doc # NoDoc =>
       /\ doc.initialized = TRUE
       /\ doc.version = CurrentVersion
       /\ ArraysMatchMaps(doc.userEmbeddings, doc.userMap, doc.reverseUserMap)
       /\ ArraysMatchMaps(doc.entityEmbeddings, doc.entityMap,
                          doc.reverseEntityMap)
  /\ (result.op = "export" /\ result.error = NoError) =>
       LET m == models[result.inst]
       IN /\ doc.config = Configuration(m)
          /\ InSlotOrder(doc.userEmbeddings, m.userEmbeddings, m.embeddingSize)
          /\ InSlotOrder(doc.entityEmbeddings, m.entityEmbeddings,
                         m.embeddingSize)
          /\ doc.reverseUserMap = getAllUsers(m.storage)
          /\ doc.reverseEntityMap = getAllEntities(m.storage)

\* export has returned the document of an instance with two users and one
\* entity.
C26_Witness ==
  /\ result.op = "export"
  /\ result.error = NoError
  /\ Len(doc.reverseUserMap) = 2
  /\ Len(doc.reverseEntityMap) = 1
  /\ Len(doc.userEmbeddings) = 2

\* C27: the model from(document, storage) returns has matrices equal to the
\* document's arrays and an index that holds the document's forward and
\* reverse mappings and nothing else, whatever the storage held before and
\* also when no storage is handed in; from runs no initializeEmbeddings and
\* no gradient step.
C27_FromReplacesMappings ==
  (result.op = "from" /\ result.error = NoError) =>
    LET m == models[2]
    IN /\ ToArray(m.userEmbeddings) = given.userEmbeddings
       /\ ToArray(m.entityEmbeddings) = given.entityEmbeddings
       /\ getAllUsers(m.storage) = given.reverseUserMap
       /\ getAllEntities(m.storage) = given.reverseEntityMap
       /\ Range(m.storage.userMap) = Range(given.userMap)
       /\ Range(m.storage.entityMap) = Range(given.entityMap)
       /\ Len(m.storage.userMap) = Cardinality(Range(given.userMap))
       /\ Len(m.storage.entityMap) = Cardinality(Range(given.entityMap))
       /\ initRuns[2] = 0
       /\ ~stepped[2]
       /\ \A c \in CallIds : gradSteps[c] = 0

\* from has returned a model on a storage that held a user id the document
\* does not name; the model's index does not know that id.
C27_Witness ==
  /\ result.op = "from"
  /\ result.error = NoError
  /\ supplied # NoStorage
  /\ \E id \in Range(getAllUsers(supplied)) :
       /\ id \notin Range(given.reverseUserMap)
       /\ getUserIndex(models[2].storage, id) = Null

\* The fit call c makes a call of optimizer.minimize in this step.
GradientStepBy(c) == gradSteps'[c] = gradSteps[c] + 1

\* C28: two instances never hold the same optimizer; no step of fit, export
\* or from replaces the optimizer of an instance, also not the step that
\* grows a matrix; every gradient step of a fit call is made on the optimizer
\* of the call's instance and on no other; and an optimizer that has been
\* stepped is not put back to its initial state.
C28_Distinct ==
  \A i, j \in Insts :
    (i # j /\ models[i] # NoModel /\ models[j] # NoModel) =>
      models[i].optimizer # models[j].optimizer

C28_Step ==
  /\ \A inst \in Insts :
       models[inst] # NoModel =>
         /\ models'[inst] # NoModel
         /\ models'[inst].optimizer = models[inst].optimizer
  /\ \A o \in Insts : stepped[o] => stepped'[o]
  /\ \A c \in CallIds :
       GradientStepBy(c) => stepped'[models[calls[c].inst].optimizer]
  /\ \A o \in Insts :
       (stepped'[o] /\ ~stepped[o]) =>
         \E c \in CallIds :
           GradientStepBy(c) /\ models[calls[c].inst].optimizer = o

C28_OneOptimizerEach == []C28_Distinct /\ [][C28_Step]_vars

\* Both instances exist, each has made gradient steps, and the fit call on
\* the loaded instance is making them on its own optimizer.
C28_Witness ==
  /\ models[1] # NoModel
  /\ models[2] # NoModel
  /\ stepped[models[1].optimizer]
  /\ stepped[models[2].optimizer]
  /\ models[1].optimizer # models[2].optimizer
  /\ \E c \in CallIds : calls[c].inst = 2 /\ gradSteps[c] > 0

\* C29: a fit call that was given a non-empty list on an instance of any
\* configuration the constructor accepts comes to its end: its registration
\* loop, its sizing and its epochs each advance and finish.
C29_FitCompletes ==
  (calls[1].pc = "register") ~> (calls[1].pc \in {"done", "failed"})

\* C30: a step in which getEntities, getUsers or export returns or throws
\* leaves every instance as it was: its identity index, both matrices, the
\* initialized flag and the configuration.
C30_Step ==
  (result' # result /\ result'.op \in QueryOps \cup {"export"}) =>
    models' = models

C30_ReadsChangeNothing == [][C30_Step]_vars

\* getEntities has answered for a user id the index of a fitted instance
\* does not hold, and the index still does not hold it.
C30_Witness ==
  /\ result.op = "getEntities"
  /\ result.error = NoError
  /\ models[result.inst].initialized
  /\ getAllUsers(models[result.inst].storage) # <<>>
  /\ getUserIndex(models[result.inst].storage, result.id) = Null

\* The document is the one the instance m would have been loaded from: its
\* arrays are the rows of the matrices of m and its lists and maps are those
\* of the index of m.
AsExported(m, d) ==
  /\ ToArray(m.userEmbeddings) = d.userEmbeddings
  /\ ToArray(m.entityEmbeddings) = d.entityEmbeddings
  /\ getAllUsers(m.storage) = d.reverseUserMap
  /\ getAllEntities(m.storage) = d.reverseEntityMap
  /\ m.storage.userMap = d.userMap
  /\ m.storage.entityMap = d.entityMap

\* C31: a step of a fit call changes neither the document export has
\* returned nor any instance but the one the call was made on: a fit on the
\* source model leaves the document and the model loaded from it with the
\* default storage as they were, and a fit on the loaded model leaves the
\* document and the source model as they were.
C31_Step ==
  \A c \in CallIds :
    ~Free(c) =>
      /\ doc' = doc
      /\ \A inst \in Insts \ {calls[c].inst} : models'[inst] = models[inst]

C31_FitLeavesOthers == [][C31_Step]_vars

\* A fit call on the source model has registered a user after the document
\* was exported and a model was loaded from it: the loaded model still has
\* the mappings and rows of the document, the source model has one user more.
C31_Witness ==
  /\ doc # NoDoc
  /\ models[2] # NoModel
  /\ AsExported(models[2], doc)
  /\ \E c \in CallIds :
       /\ ~Free(c)
       /\ calls[c].inst = 1
       /\ gradSteps[c] > 0
       /\ Len(getAllUsers(models[1].storage)) > Len(doc.reverseUserMap)
====
